---- MODULE Spec2Model ----
(***************************************************************************)
(* Care workflow of the Easy-health backend: appointments, available      *)
(* slots, consultations and the notifications they write.  Every request   *)
(* handler is a sequence of steps, one per awaited storage operation; a    *)
(* single storage operation (save, findByIdAndUpdate, find) is atomic.     *)
(***************************************************************************)
EXTENDS Integers, Sequences, FiniteSets, TLC

VARIABLES appointments, consultations, notifications, prescriptions,
          pharmacyRequests, insurances, payments, labRequests, labResults, profiles,
          medications, req

vars == <<appointments, consultations, notifications, prescriptions,
          pharmacyRequests, insurances, payments, labRequests, labResults, profiles,
          medications, req>>

\* the collections of the booking routes, of the prescription and payment
\* routes, and of the lab test routes
bookingVars == <<appointments, consultations, notifications>>
dispensingVars == <<prescriptions, pharmacyRequests, insurances, payments>>
labVars == <<labRequests, labResults>>
registryVars == <<profiles, medications>>

----------------------------------------------------------------------------
(* Bounds *)

\* number of requests that may be in flight at the same time
MaxInFlight == 2
\* size of the Notification collection up to which requests are admitted
MaxNotifications == 3
\* size of the Appointment collection up to which bookings are admitted
MaxAppointments == 2

Slots == 1..MaxInFlight

\* an absent (undefined) field of a request body or of a document
NoVal == "undefined"

----------------------------------------------------------------------------
(* Seeded accounts: profiles and the Doctor documents that point at them *)

RoleEnum == {"patient", "doctor", "lab_technician", "pharmacist", "admin", "nurse"}

Profiles == {"P1", "P2", "UD1", "UD2", "UD3", "N1", "A1", "L1", "L2", "PH1"}

Role(u) ==
  CASE u \in {"P1", "P2"} -> "patient"
    [] u \in {"UD1", "UD2", "UD3"} -> "doctor"
    [] u = "N1" -> "nurse"
    [] u = "A1" -> "admin"
    [] u \in {"L1", "L2"} -> "lab_technician"
    [] u = "PH1" -> "pharmacist"

\* UD3 has role doctor and no Doctor document
DoctorDocs == {[_id |-> "D1", user_id |-> "UD1"], [_id |-> "D2", user_id |-> "UD2"]}

NoDoctor == [_id |-> NoVal, user_id |-> NoVal]

\* Doctor.findOne({ user_id }): the document, or NoDoctor for null
DoctorFindOneByUser(u) ==
  IF \E d \in DoctorDocs : d.user_id = u
    THEN CHOOSE d \in DoctorDocs : d.user_id = u
    ELSE NoDoctor

\* Doctor.findById(id): the document, or NoDoctor for null
DoctorFindById(id) ==
  IF \E d \in DoctorDocs : d._id = id
    THEN CHOOSE d \in DoctorDocs : d._id = id
    ELSE NoDoctor

\* the Hospital documents: L1 is the lab account of H1, H2 has none, and L2
\* is the lab account of no hospital
HospitalDocs == {[_id |-> "H1", lab_user_id |-> "L1"], [_id |-> "H2", lab_user_id |-> NoVal]}

\* the Insurance documents at the start, and the insurance_id of the profiles:
\* P2 is insured at 30%, P1 has no insurance
InsuranceDocs == {[_id |-> "I30", coverage_percentage |-> 30]}

InsuranceRef(u) == IF u = "P2" THEN "I30" ELSE NoVal

----------------------------------------------------------------------------
(* Dates and slot markers *)

\* new Date(str) / the Date cast of the schema: the day the string denotes,
\* 0 for a string that is no date (Invalid Date)
ParseDate(str) ==
  CASE str = "2024-06-01" -> 20240601
    [] str = "2024-06-01T00:00:00.000Z" -> 20240601
    [] str = "2024-06-02" -> 20240602
    [] str = "2030-01-01" -> 20300101
    [] OTHER -> 0

FirstHour == 8
LastHour == 18
SlotMinutes == 10

\* n.toString().padStart(2, '0') for 0 <= n < 100
PadStart2(n) == IF n < 10 THEN "0" \o ToString(n) ELSE ToString(n)

\* `${hour}:${minute}:00` with both parts padded
TimeStr(hour, minute) == PadStart2(hour) \o ":" \o PadStart2(minute) \o ":00"

SlotsPerHour == 60 \div SlotMinutes

\* the two nested loops that fill allSlots, in the order they push
AllSlots ==
  [i \in 1..((LastHour - FirstHour) * SlotsPerHour) |->
     TimeStr(FirstHour + ((i - 1) \div SlotsPerHour),
             ((i - 1) % SlotsPerHour) * SlotMinutes)]

----------------------------------------------------------------------------
(* Appointment schema *)

StatusEnum == {"pending", "approved", "rejected", "completed", "cancelled"}

EmptyDoc ==
  [_id |-> 0, patient_id |-> NoVal, doctor_id |-> NoVal, appointment_date |-> 0,
   appointment_time |-> NoVal, status |-> NoVal, rejection_reason |-> NoVal,
   hospital_id |-> NoVal, department_id |-> NoVal]

EmptyBody ==
  [patient_id |-> NoVal, doctor_id |-> NoVal, appointment_date |-> NoVal,
   appointment_time |-> NoVal, status |-> NoVal, rejection_reason |-> NoVal,
   hospital_id |-> NoVal, department_id |-> NoVal]

\* the spread in the other order: a patient_id of the body wins over the caller
NewAppointmentBodyWins(caller, body) ==
  [_id |-> 0,
   patient_id |-> IF body.patient_id = NoVal THEN caller ELSE body.patient_id,
   doctor_id |-> body.doctor_id,
   appointment_date |-> IF body.appointment_date = NoVal THEN 0
                        ELSE ParseDate(body.appointment_date),
   appointment_time |-> body.appointment_time,
   status |-> IF body.status = NoVal THEN "pending" ELSE body.status,
   rejection_reason |-> body.rejection_reason,
   hospital_id |-> body.hospital_id,
   department_id |-> body.department_id]

\* new Appointment({ ...req.body, patient_id: req.user._id }): the body's
\* fields, the caller's id over any patient_id of the body, the schema default
\* for an absent status, the Date cast of appointment_date
NewAppointment(caller, body) ==
  [_id |-> 0,
   patient_id |-> caller,
   doctor_id |-> body.doctor_id,
   appointment_date |-> IF body.appointment_date = NoVal THEN 0
                        ELSE ParseDate(body.appointment_date),
   appointment_time |-> body.appointment_time,
   status |-> IF body.status = NoVal THEN "pending" ELSE body.status,
   rejection_reason |-> body.rejection_reason,
   hospital_id |-> body.hospital_id,
   department_id |-> body.department_id]

\* schema validation at save: the required paths patient_id, doctor_id,
\* hospital_id, department_id, appointment_date, appointment_time present, the
\* date a date, status in the enum
AppointmentValid(doc) ==
  /\ doc.patient_id # NoVal
  /\ doc.doctor_id # NoVal
  /\ doc.appointment_date # 0
  /\ doc.appointment_time # NoVal
  /\ doc.status \in StatusEnum
  /\ doc.hospital_id # NoVal
  /\ doc.department_id # NoVal

SlotKey(doc) == <<doc.doctor_id, doc.appointment_date, doc.appointment_time>>

\* the collection without its unique index
AppointmentIndexDropped(coll, doc) == TRUE

\* the unique index on (doctor_id, appointment_date, appointment_time): no
\* other document of the collection holds the key of doc
AppointmentIndexFree(coll, doc) ==
  \A i \in 1..Len(coll) : coll[i]._id # doc._id => SlotKey(coll[i]) # SlotKey(doc)

\* the role gate of appointment creation
MayCreateAppointment(caller) == Role(caller) = "patient"

----------------------------------------------------------------------------
(* Requests in flight *)

Idle ==
  [id |-> 0, caller |-> NoVal, body |-> EmptyBody, doc |-> EmptyDoc, pc |-> "idle",
   op |-> NoVal, code |-> 0, err |-> NoVal, out |-> <<>>]

\* a handler may start on a connection that carries no running request
Free(r) == req[r].pc \in {"idle", "done"}

\* res.status(code).json(...): the response of the request on r
Respond(r, op, caller, id, doc, body, code, err) ==
  req' = [req EXCEPT ![r] =
            [id |-> id, caller |-> caller, body |-> body, doc |-> doc, pc |-> "done",
             op |-> op, code |-> code, err |-> err, out |-> <<>>]]

\* request r is answered in this step
Answered(r, op) == req[r].pc # "done" /\ req'[r].pc = "done" /\ req'[r].op = op

Notification(user, title, ref) ==
  [user_id |-> user, title |-> title, reference_id |-> ref, is_read |-> FALSE]

\* the collections still have room for what one more request may write
NotificationsFit == Len(notifications) < MaxNotifications

AppointmentsFit == Len(appointments) < MaxAppointments

----------------------------------------------------------------------------
(* POST /api/appointments *)

\* the role gate and the construction of the document, up to the save
ApptCreateBegin(r, caller, body) ==
  /\ Free(r)
  /\ IF ~MayCreateAppointment(caller)
       THEN Respond(r, "createAppointment", caller, 0, EmptyDoc, body, 403,
                    "Only patients can create appointments")
       ELSE req' = [req EXCEPT ![r] =
                      [Idle EXCEPT !.pc = "save", !.op = "createAppointment",
                                   !.caller = caller, !.body = body,
                                   !.doc = NewAppointment(caller, body)]]
  /\ UNCHANGED <<appointments, consultations, notifications>>
  /\ UNCHANGED <<dispensingVars, labVars, registryVars>>

\* appointment.save(): validation, then the insert under the unique index
ApptCreateSave(r) ==
  /\ req[r].pc = "save"
  /\ req[r].op = "createAppointment"
  /\ LET doc == req[r].doc
         id == Len(appointments) + 1
     IN  IF ~AppointmentValid(doc)
           THEN /\ Respond(r, "createAppointment", req[r].caller, 0, doc, req[r].body,
                           500, "ValidationError")
                /\ UNCHANGED appointments
           ELSE IF ~AppointmentIndexFree(appointments, doc)
             THEN /\ Respond(r, "createAppointment", req[r].caller, 0, doc, req[r].body,
                             500, "E11000 duplicate key error")
                  /\ UNCHANGED appointments
             ELSE /\ appointments' = Append(appointments, [doc EXCEPT !._id = id])
                  /\ req' = [req EXCEPT ![r].pc = "notify", ![r].id = id,
                                        ![r].doc = [doc EXCEPT !._id = id]]
  /\ UNCHANGED <<consultations, notifications>>
  /\ UNCHANGED <<dispensingVars, labVars, registryVars>>

\* Doctor.findById(...).populate('user_id'), Notification.create, 201
ApptCreateNotify(r) ==
  /\ req[r].pc = "notify"
  /\ req[r].op = "createAppointment"
  /\ LET doctor == DoctorFindById(req[r].doc.doctor_id)
     IN  notifications' =
           IF doctor # NoDoctor
             THEN Append(notifications,
                         Notification(doctor.user_id, "New Appointment Request", req[r].id))
             ELSE notifications
  /\ Respond(r, "createAppointment", req[r].caller, req[r].id, req[r].doc, req[r].body,
             201, NoVal)
  /\ UNCHANGED <<appointments, consultations>>
  /\ UNCHANGED <<dispensingVars, labVars, registryVars>>

----------------------------------------------------------------------------
(* PUT /api/appointments/:id *)

\* Appointment.findById(id): the document, or EmptyDoc for null
AppointmentFindById(id) ==
  IF id \in 1..Len(appointments) THEN appointments[id] ELSE EmptyDoc

\* the permission branches of the update handler
MayUpdateAppointment(caller, appointment) ==
  CASE Role(caller) = "doctor" ->
         LET doctor == DoctorFindOneByUser(caller)
         IN  doctor # NoDoctor /\ doctor._id = appointment.doctor_id
    [] Role(caller) = "nurse" -> TRUE
    [] Role(caller) = "admin" -> TRUE
    [] OTHER -> caller = appointment.patient_id

\* the update without runValidators
UpdateUnvalidated(body) == TRUE

\* runValidators on the paths the update sets: the status enum, the Date cast
UpdateValid(body) ==
  /\ body.status # NoVal => body.status \in StatusEnum
  /\ body.appointment_date # NoVal => ParseDate(body.appointment_date) # 0

\* findByIdAndUpdate(id, req.body): every path the body carries replaces the
\* stored one, the others stay
ApplyUpdate(appointment, body) ==
  [_id |-> appointment._id,
   patient_id |-> IF body.patient_id = NoVal THEN appointment.patient_id
                  ELSE body.patient_id,
   doctor_id |-> IF body.doctor_id = NoVal THEN appointment.doctor_id
                 ELSE body.doctor_id,
   appointment_date |-> IF body.appointment_date = NoVal
                          THEN appointment.appointment_date
                          ELSE ParseDate(body.appointment_date),
   appointment_time |-> IF body.appointment_time = NoVal
                          THEN appointment.appointment_time
                          ELSE body.appointment_time,
   status |-> IF body.status = NoVal THEN appointment.status ELSE body.status,
   rejection_reason |-> IF body.rejection_reason = NoVal
                          THEN appointment.rejection_reason
                          ELSE body.rejection_reason,
   hospital_id |-> IF body.hospital_id = NoVal THEN appointment.hospital_id
                   ELSE body.hospital_id,
   department_id |-> IF body.department_id = NoVal THEN appointment.department_id
                     ELSE body.department_id]

\* the status values whose update notifies the patient
NotifiesPatient(body) == body.status = "approved" \/ body.status = "rejected"

\* findById, 404, the permission check
ApptUpdateFind(r, caller, id, body) ==
  /\ Free(r)
  /\ LET appointment == AppointmentFindById(id)
     IN  IF appointment = EmptyDoc
           THEN Respond(r, "updateAppointment", caller, id, EmptyDoc, body, 404,
                        "Appointment not found")
           ELSE IF ~MayUpdateAppointment(caller, appointment)
             THEN Respond(r, "updateAppointment", caller, id, appointment, body, 403,
                          "Access denied")
             ELSE req' = [req EXCEPT ![r] =
                            [Idle EXCEPT !.pc = "update", !.op = "updateAppointment",
                                         !.caller = caller, !.id = id,
                                         !.doc = appointment, !.body = body]]
  /\ UNCHANGED <<appointments, consultations, notifications>>
  /\ UNCHANGED <<dispensingVars, labVars, registryVars>>

\* findByIdAndUpdate(id, req.body, { new: true, runValidators: true })
ApptUpdateWrite(r) ==
  /\ req[r].pc = "update"
  /\ req[r].op = "updateAppointment"
  /\ LET body == req[r].body
         id == req[r].id
         updated == ApplyUpdate(appointments[id], body)
     IN  IF ~UpdateValid(body)
           THEN /\ Respond(r, "updateAppointment", req[r].caller, id, req[r].doc, body,
                           500, "ValidationError")
                /\ UNCHANGED appointments
           ELSE IF ~AppointmentIndexFree(appointments, updated)
             THEN /\ Respond(r, "updateAppointment", req[r].caller, id, req[r].doc,
                             body, 500, "E11000 duplicate key error")
                  /\ UNCHANGED appointments
             ELSE /\ appointments' = [appointments EXCEPT ![id] = updated]
                  /\ IF NotifiesPatient(body)
                       THEN req' = [req EXCEPT ![r].pc = "notify"]
                       ELSE Respond(r, "updateAppointment", req[r].caller, id,
                                    req[r].doc, body, 200, NoVal)
  /\ UNCHANGED <<consultations, notifications>>
  /\ UNCHANGED <<dispensingVars, labVars, registryVars>>

\* Notification.create for the patient of the appointment found, then 200
ApptUpdateNotify(r) ==
  /\ req[r].pc = "notify"
  /\ req[r].op = "updateAppointment"
  /\ notifications' =
       Append(notifications,
              Notification(req[r].doc.patient_id, "Appointment " \o req[r].body.status,
                           req[r].id))
  /\ Respond(r, "updateAppointment", req[r].caller, req[r].id, req[r].doc, req[r].body,
             200, NoVal)
  /\ UNCHANGED <<appointments, consultations>>
  /\ UNCHANGED <<dispensingVars, labVars, registryVars>>

----------------------------------------------------------------------------
(* GET /api/appointments/available/:doctorId/:date *)

\* the find without its status condition
BookedSlotsAnyStatus(doctorId, day) ==
  {appointments[i].appointment_time : i \in
     {j \in 1..Len(appointments) :
        /\ appointments[j].doctor_id = doctorId
        /\ appointments[j].appointment_date = day}}

\* the find of the handler: the appointment_time of the doctor's appointments
\* of the day that are pending or approved
BookedSlots(doctorId, day) ==
  {appointments[i].appointment_time : i \in
     {j \in 1..Len(appointments) :
        /\ appointments[j].doctor_id = doctorId
        /\ appointments[j].appointment_date = day
        /\ appointments[j].status \in {"pending", "approved"}}}

\* allSlots.filter(slot => !bookedSlots.includes(slot))
AvailableSlots(doctorId, day) ==
  SelectSeq(AllSlots, LAMBDA slot : slot \notin BookedSlots(doctorId, day))

ApptAvailable(r, caller, doctorId, date) ==
  /\ Free(r)
  /\ LET params == [EmptyBody EXCEPT !.doctor_id = doctorId, !.appointment_date = date]
     IN  IF ParseDate(date) = 0
           THEN Respond(r, "availableSlots", caller, 0, EmptyDoc, params, 500, "CastError")
           ELSE req' = [req EXCEPT ![r] =
                          [id |-> 0, caller |-> caller, body |-> params,
                           doc |-> EmptyDoc, pc |-> "done", op |-> "availableSlots",
                           code |-> 200, err |-> NoVal,
                           out |-> AvailableSlots(doctorId, ParseDate(date))]]
  /\ UNCHANGED <<appointments, consultations, notifications>>
  /\ UNCHANGED <<dispensingVars, labVars, registryVars>>

----------------------------------------------------------------------------
(* POST /api/consultations *)

EmptyConsultation ==
  [_id |-> 0, patient_id |-> NoVal, doctor_id |-> NoVal, appointment_id |-> 0]

\* the spread in the other order: the references of the body win over those
\* of the appointment
NewConsultationBodyWins(body, appointment) ==
  [_id |-> 0,
   patient_id |-> IF body.patient_id = NoVal THEN appointment.patient_id ELSE body.patient_id,
   doctor_id |-> IF body.doctor_id = NoVal THEN appointment.doctor_id ELSE body.doctor_id,
   appointment_id |-> body.appointment_id]

\* new Consultation({ ...req.body, patient_id: appointment.patient_id,
\* doctor_id: appointment.doctor_id })
NewConsultation(body, appointment) ==
  [_id |-> 0, patient_id |-> appointment.patient_id,
   doctor_id |-> appointment.doctor_id, appointment_id |-> body.appointment_id]

\* the collection without the unique option on appointment_id
ConsultationIndexDropped(coll, doc) == TRUE

\* unique: true on appointment_id
ConsultationIndexFree(coll, doc) ==
  \A i \in 1..Len(coll) : coll[i].appointment_id # doc.appointment_id

\* the role gate of consultation creation
MayCreateConsultation(caller) == Role(caller) = "doctor"

\* the caller's Doctor document is the doctor of the appointment
IsAppointmentDoctor(caller, appointment) ==
  LET doctor == DoctorFindOneByUser(caller)
  IN  doctor # NoDoctor /\ doctor._id = appointment.doctor_id

\* the role gate, up to Appointment.findById
ConsCreateBegin(r, caller, body) ==
  /\ Free(r)
  /\ IF ~MayCreateConsultation(caller)
       THEN Respond(r, "createConsultation", caller, 0, EmptyConsultation, body, 403,
                    "Only doctors can create consultations")
       ELSE req' = [req EXCEPT ![r] =
                      [Idle EXCEPT !.pc = "find", !.op = "createConsultation",
                                   !.caller = caller, !.body = body,
                                   !.doc = EmptyConsultation]]
  /\ UNCHANGED <<appointments, consultations, notifications>>
  /\ UNCHANGED <<dispensingVars, labVars, registryVars>>

\* Appointment.findById, 404, Doctor.findOne and the doctor check, the
\* construction of the document
ConsCreateFind(r) ==
  /\ req[r].pc = "find"
  /\ req[r].op = "createConsultation"
  /\ LET body == req[r].body
         appointment == AppointmentFindById(body.appointment_id)
     IN  IF appointment = EmptyDoc
           THEN Respond(r, "createConsultation", req[r].caller, 0, EmptyConsultation,
                        body, 404, "Appointment not found")
           ELSE IF ~IsAppointmentDoctor(req[r].caller, appointment)
             THEN Respond(r, "createConsultation", req[r].caller, 0, EmptyConsultation,
                          body, 403, "Access denied")
             ELSE req' = [req EXCEPT ![r].pc = "save",
                                     ![r].doc = NewConsultation(body, appointment)]
  /\ UNCHANGED <<appointments, consultations, notifications>>
  /\ UNCHANGED <<dispensingVars, labVars, registryVars>>

\* consultation.save() under the unique index, the populates, 201
ConsCreateSave(r) ==
  /\ req[r].pc = "save"
  /\ req[r].op = "createConsultation"
  /\ LET doc == req[r].doc
         id == Len(consultations) + 1
     IN  IF ~ConsultationIndexFree(consultations, doc)
           THEN /\ Respond(r, "createConsultation", req[r].caller, 0, doc, req[r].body,
                           500, "E11000 duplicate key error")
                /\ UNCHANGED consultations
           ELSE /\ consultations' = Append(consultations, [doc EXCEPT !._id = id])
                /\ Respond(r, "createConsultation", req[r].caller, id,
                           [doc EXCEPT !._id = id], req[r].body, 201, NoVal)
  /\ UNCHANGED <<appointments, notifications>>
  /\ UNCHANGED <<dispensingVars, labVars, registryVars>>

\* the paths of the body over the stored ones; an absent appointment_id is 0
ApplyConsultationUpdate(consultation, body) ==
  [_id |-> consultation._id,
   patient_id |-> IF body.patient_id = NoVal THEN consultation.patient_id
                  ELSE body.patient_id,
   doctor_id |-> IF body.doctor_id = NoVal THEN consultation.doctor_id
                 ELSE body.doctor_id,
   appointment_id |-> IF body.appointment_id = 0 THEN consultation.appointment_id
                      ELSE body.appointment_id]

\* a caller of role doctor must be the doctor of the consultation; callers of
\* the other roles are not checked
MayUpdateConsultation(caller, consultation) ==
  Role(caller) = "doctor"
    => LET doctor == DoctorFindOneByUser(caller)
       IN  doctor # NoDoctor /\ doctor._id = consultation.doctor_id

\* PUT /api/consultations/:id: Consultation.findById, 404 for null, and the
\* check of a doctor caller
ConsUpdateFind(r, caller, id, body) ==
  /\ Free(r)
  /\ LET consultation == IF id \in 1..Len(consultations) THEN consultations[id]
                         ELSE EmptyConsultation
     IN  IF consultation = EmptyConsultation
           THEN Respond(r, "updateConsultation", caller, id, EmptyConsultation, body,
                        404, "Consultation not found")
           ELSE IF ~MayUpdateConsultation(caller, consultation)
             THEN Respond(r, "updateConsultation", caller, id, EmptyConsultation,
                          body, 403, "Access denied")
             ELSE req' = [req EXCEPT ![r] =
                            [Idle EXCEPT !.pc = "write", !.op = "updateConsultation",
                                         !.caller = caller, !.id = id, !.body = body,
                                         !.doc = EmptyConsultation]]
  /\ UNCHANGED <<appointments, consultations, notifications>>
  /\ UNCHANGED <<dispensingVars, labVars, registryVars>>

\* Consultation.findByIdAndUpdate(id, req.body, { runValidators }) under the
\* unique index on appointment_id, 200; catch 500
ConsUpdateWrite(r) ==
  /\ req[r].pc = "write"
  /\ req[r].op = "updateConsultation"
  /\ LET id == req[r].id
         updated == ApplyConsultationUpdate(consultations[id], req[r].body)
         others == [consultations EXCEPT ![id] = EmptyConsultation]
     IN  IF ~ConsultationIndexFree(others, updated)
           THEN /\ Respond(r, "updateConsultation", req[r].caller, id,
                           EmptyConsultation, req[r].body, 500,
                           "E11000 duplicate key error")
                /\ UNCHANGED consultations
           ELSE /\ consultations' = [consultations EXCEPT ![id] = updated]
                /\ Respond(r, "updateConsultation", req[r].caller, id, updated,
                           req[r].body, 200, NoVal)
  /\ UNCHANGED <<appointments, notifications>>
  /\ UNCHANGED <<dispensingVars, labVars, registryVars>>

----------------------------------------------------------------------------
(* Inputs *)

BookingCallers == {"P1", "P2", "A1"}

BookingBodies ==
  {[EmptyBody EXCEPT !.patient_id = p, !.doctor_id = d,
                     !.appointment_date = "2024-06-01",
                     !.appointment_time = "09:00:00", !.hospital_id = "H1",
                     !.department_id = "DP1"] :
     p \in {NoVal}, d \in {"D1", "D2"}}

Init ==
  /\ appointments = <<>>
  /\ consultations = <<>>
  /\ notifications = <<>>
  /\ prescriptions = <<>>
  /\ pharmacyRequests = <<>>
  /\ insurances = InsuranceDocs
  /\ payments = <<>>
  /\ labRequests = <<>>
  /\ labResults = <<>>
  /\ profiles = <<>>
  /\ medications = <<>>
  /\ req = [r \in Slots |-> Idle]

\* concurrent bookings
NextBooking ==
  \/ \E r \in Slots, caller \in BookingCallers, body \in BookingBodies :
       ApptCreateBegin(r, caller, body)
  \/ \E r \in Slots : ApptCreateSave(r)
  \/ \E r \in Slots : ApptCreateNotify(r)

SpecBooking == Init /\ [][NextBooking]_vars

----------------------------------------------------------------------------
(* Properties of booking *)

DoneCreate(r) == req[r].pc = "done" /\ req[r].op = "createAppointment"

Duplicate(r) == req[r].code = 500 /\ req[r].err = "E11000 duplicate key error"

\* C1: at most one Appointment exists per (doctor_id, appointment_date,
\* appointment_time) under any interleaving of create requests; two requests
\* for the same slot never both succeed, and one that failed on the slot left
\* the slot held by the appointment of the request that succeeded.
C1_OneAppointmentPerSlot ==
  /\ \A i, j \in 1..Len(appointments) :
        i # j => SlotKey(appointments[i]) # SlotKey(appointments[j])
  /\ \A r, q \in Slots :
        (r # q /\ DoneCreate(r) /\ DoneCreate(q)
           /\ req[r].code = 201 /\ req[q].code = 201)
          => SlotKey(req[r].doc) # SlotKey(req[q].doc)
  /\ \A r \in Slots :
        (req[r].op = "createAppointment" /\ req[r].pc = "notify")
          => appointments[req[r].id] = req[r].doc
  /\ \A r \in Slots :
        (DoneCreate(r) /\ Duplicate(r))
          => Cardinality({i \in 1..Len(appointments) :
                           SlotKey(appointments[i]) = SlotKey(req[r].doc)}) = 1

\* two requests for one slot overlapped: one has saved and is still running,
\* the other has already failed on the index
C1_Witness ==
  \E r, q \in Slots :
    /\ req[r].op = "createAppointment" /\ req[r].pc = "notify"
    /\ DoneCreate(q) /\ Duplicate(q)
    /\ SlotKey(req[q].doc) = SlotKey(req[r].doc)
    /\ req[q].caller # req[r].caller

\* the status codes the interface gives a duplicate
ConflictCodes == {400, 409}

\* C2: a booking attempt for a slot that an appointment already holds is
\* answered with a Conflict status, not with the 500 of an unexpected error,
\* and it creates no Appointment and no Notification.
C2_ConflictIsDistinct ==
  \A r \in Slots :
    (DoneCreate(r) /\ MayCreateAppointment(req[r].caller)
       /\ AppointmentValid(req[r].doc) /\ req[r].code # 201)
      => req[r].code \in ConflictCodes

----------------------------------------------------------------------------
(* Bookings one at a time, by callers of every role *)

CreateCallers == Profiles

CreateBodies ==
  {[EmptyBody EXCEPT !.patient_id = p, !.doctor_id = d,
                     !.appointment_date = "2024-06-01",
                     !.appointment_time = "09:00:00", !.hospital_id = "H1",
                     !.department_id = dp] :
     p \in {NoVal, "P1", "P2"}, d \in {"D1", "D2", "D9"}, dp \in {"DP1", NoVal}}

NextCreate ==
  \/ \E caller \in CreateCallers, body \in CreateBodies : ApptCreateBegin(1, caller, body)
  \/ ApptCreateSave(1)
  \/ ApptCreateNotify(1)

SpecCreate == Init /\ [][NextCreate]_vars

----------------------------------------------------------------------------
(* Updates of one appointment, one request at a time *)

UpdateCallers == {"P1", "P2", "UD1", "UD2", "UD3", "N1", "A1", "L1"}

UpdateBodies ==
  {[EmptyBody EXCEPT !.status = st] : st \in StatusEnum \cup {"archived"}}
    \cup {[EmptyBody EXCEPT !.status = st, !.rejection_reason = "no free bed"] :
            st \in {NoVal, "rejected"}}

NextUpdate ==
  \/ \E body \in {b \in CreateBodies : b.patient_id = NoVal /\ b.doctor_id = "D1"} :
       NotificationsFit /\ ApptCreateBegin(1, "P1", body)
  \/ ApptCreateSave(1)
  \/ ApptCreateNotify(1)
  \/ \E caller \in UpdateCallers, id \in 1..2, body \in UpdateBodies :
       /\ NotifiesPatient(body) => NotificationsFit
       /\ ApptUpdateFind(1, caller, id, body)
  \/ ApptUpdateWrite(1)
  \/ ApptUpdateNotify(1)

SpecUpdate == Init /\ [][NextUpdate]_vars

----------------------------------------------------------------------------
(* Properties of creation and update *)

\* C6: an appointment is inserted only by a request whose caller has role
\* patient and its patient_id is that caller, whatever the body names; a
\* caller of another role is answered 403 and the step that answers writes
\* neither an appointment nor a notification.
C6_PatientGate ==
  [][\A r \in Slots :
       /\ (req'[r] # req[r] /\ Len(appointments') > Len(appointments))
            => /\ Role(req[r].caller) = "patient"
               /\ appointments'[Len(appointments')].patient_id = req[r].caller
       /\ (req'[r] # req[r] /\ Len(notifications') > Len(notifications))
            => Role(req[r].caller) = "patient"
       /\ (req'[r] # req[r] /\ req'[r].pc = "done"
              /\ req'[r].op = "createAppointment"
              /\ Role(req'[r].caller) # "patient")
            => /\ req'[r].code = 403
               /\ UNCHANGED <<appointments, notifications>>]_vars

\* a patient booked with another patient's id in the body and is the patient
\* of record; a nurse was turned away
C6_Witness ==
  /\ DoneCreate(1) /\ req[1].code = 201
  /\ req[1].body.patient_id = "P2" /\ req[1].caller = "P1"
  /\ appointments[req[1].id].patient_id = "P1"
  /\ \E i \in 1..Len(appointments) : appointments[i].patient_id = "P2"

\* C12: every successful appointment creation has written exactly one
\* notification whose user_id is the profile of the appointment's doctor and
\* whose reference_id is the new appointment.
C12_CreationNotifiesDoctor ==
  \A r \in Slots :
    (DoneCreate(r) /\ req[r].code = 201)
      => Cardinality({i \in 1..Len(notifications) :
                        /\ notifications[i].reference_id = req[r].id
                        /\ notifications[i].user_id \in
                             {d.user_id : d \in {x \in DoctorDocs :
                                 x._id = appointments[req[r].id].doctor_id}}}) = 1

DoneUpdate(r) == req[r].pc = "done" /\ req[r].op = "updateAppointment"

\* the caller is the doctor the appointment is assigned to
AssignedDoctor(caller, appointment) ==
  /\ Role(caller) = "doctor"
  /\ DoctorFindOneByUser(caller)._id = appointment.doctor_id

\* C7: an update moves an appointment to approved or rejected only when the
\* caller is its assigned doctor, a nurse or an admin.
C7_OnlyStaffDecide ==
  \A r \in Slots :
    (DoneUpdate(r) /\ req[r].code = 200
       /\ req[r].body.status \in {"approved", "rejected"}
       /\ appointments[req[r].id].status = req[r].body.status)
      => \/ AssignedDoctor(req[r].caller, req[r].doc)
         \/ Role(req[r].caller) \in {"nurse", "admin"}

\* C9 as claimed: the status moves along the workflow graph only: approved
\* and rejected are entered from pending, cancelled from pending or approved,
\* and completed is never left.
C9_WorkflowGraph ==
  [][\A i \in 1..Len(appointments) :
       LET old == appointments[i].status
           new == appointments'[i].status
       IN  old # new =>
             /\ new \in {"approved", "rejected"} => old = "pending"
             /\ new = "cancelled" => old \in {"pending", "approved"}
             /\ old # "completed"]_vars

\* C9 as amended: the schema enum is all an update enforces on status: every
\* stored status is one of the five values, and an update whose status is
\* outside them is answered with an error and leaves the appointment as it was.
C9_StatusInEnum ==
  /\ \A i \in 1..Len(appointments) : appointments[i].status \in StatusEnum
  /\ \A r \in Slots :
        (DoneUpdate(r) /\ req[r].doc # EmptyDoc
           /\ req[r].body.status # NoVal /\ req[r].body.status \notin StatusEnum)
          => /\ req[r].code \in {403, 500}
             /\ appointments[req[r].id] = req[r].doc

\* an update with a status outside the enum was refused after the permission
\* check, on an appointment that earlier updates had moved to completed
C9_Witness ==
  /\ DoneUpdate(1) /\ req[1].code = 500
  /\ req[1].body.status = "archived"
  /\ appointments[req[1].id].status = "completed"

\* C10: an update to rejected that carries no rejection reason is refused, and
\* every rejected appointment carries a rejection_reason.
C10_RejectionNeedsReason ==
  /\ \A r \in Slots :
        (DoneUpdate(r) /\ req[r].body.status = "rejected"
           /\ req[r].body.rejection_reason = NoVal)
          => req[r].code # 200
  /\ \A i \in 1..Len(appointments) :
        appointments[i].status = "rejected"
          => appointments[i].rejection_reason # NoVal

\* C11: every update that moved an appointment into approved or rejected has
\* written one notification to the appointment's patient, and a notification
\* of approval or rejection is written only by an update that changed the
\* status: an update that leaves the status as it was writes none.
C11_NotifyOnTransitionOnly ==
  /\ [](\A r \in Slots :
          (DoneUpdate(r) /\ req[r].code = 200
             /\ req[r].body.status \in {"approved", "rejected"}
             /\ req[r].doc.status # req[r].body.status)
            => \E i \in 1..Len(notifications) :
                 notifications[i] =
                   Notification(req[r].doc.patient_id,
                                "Appointment " \o req[r].body.status, req[r].id))
  /\ [][Len(notifications') > Len(notifications)
          /\ notifications'[Len(notifications')].title
               \in {"Appointment approved", "Appointment rejected"}
        => \E r \in Slots :
             /\ req[r].op = "updateAppointment"
             /\ req[r].doc.status # req[r].body.status
             /\ Len(notifications') = Len(notifications) + 1]_vars


----------------------------------------------------------------------------
(* Slot queries over a calendar of several doctors, days and statuses *)

SlotBodies ==
  {[EmptyBody EXCEPT !.doctor_id = k[1], !.appointment_date = k[2],
                     !.appointment_time = k[3], !.status = st,
                     !.hospital_id = "H1", !.department_id = "DP1"] :
     k \in {<<"D1", "2024-06-01", "08:00:00">>,
            <<"D1", "2024-06-01T00:00:00.000Z", "17:50:00">>,
            <<"D2", "2024-06-02", "18:00:00">>},
     st \in {NoVal, "approved"}}

SlotUpdateBodies ==
  {[EmptyBody EXCEPT !.status = st] : st \in {"rejected", "cancelled", "completed"}}

NextSlots ==
  \/ \E body \in SlotBodies :
       AppointmentsFit /\ ApptCreateBegin(1, "P1", body)
  \/ ApptCreateSave(1)
  \/ ApptCreateNotify(1)
  \/ \E id \in 1..MaxAppointments, body \in SlotUpdateBodies :
       /\ NotifiesPatient(body) => NotificationsFit
       /\ ApptUpdateFind(1, "P1", id, body)
  \/ ApptUpdateWrite(1)
  \/ ApptUpdateNotify(1)
  \/ \E doctorId \in {"D1", "D2"}, date \in {"2024-06-01", "2024-06-02", "tomorrow"} :
       ApptAvailable(1, "P2", doctorId, date)

SpecSlots == Init /\ [][NextSlots]_vars

\* the 60 markers from 08:00:00 to 17:50:00
Markers ==
  {"08:00:00",  "08:10:00",  "08:20:00",  "08:30:00",  "08:40:00",  "08:50:00",
   "09:00:00",  "09:10:00",  "09:20:00",  "09:30:00",  "09:40:00",  "09:50:00",
   "10:00:00",  "10:10:00",  "10:20:00",  "10:30:00",  "10:40:00",  "10:50:00",
   "11:00:00",  "11:10:00",  "11:20:00",  "11:30:00",  "11:40:00",  "11:50:00",
   "12:00:00",  "12:10:00",  "12:20:00",  "12:30:00",  "12:40:00",  "12:50:00",
   "13:00:00",  "13:10:00",  "13:20:00",  "13:30:00",  "13:40:00",  "13:50:00",
   "14:00:00",  "14:10:00",  "14:20:00",  "14:30:00",  "14:40:00",  "14:50:00",
   "15:00:00",  "15:10:00",  "15:20:00",  "15:30:00",  "15:40:00",  "15:50:00",
   "16:00:00",  "16:10:00",  "16:20:00",  "16:30:00",  "16:40:00",  "16:50:00",
   "17:00:00",  "17:10:00",  "17:20:00",  "17:30:00",  "17:40:00",  "17:50:00"}

Range(seq) == {seq[i] : i \in 1..Len(seq)}

DoneSlots(r) == req[r].pc = "done" /\ req[r].op = "availableSlots" /\ req[r].code = 200

\* an appointment of the doctor and day asked for, at marker m
Holds(a, r, m) ==
  /\ a.doctor_id = req[r].body.doctor_id
  /\ a.appointment_date = ParseDate(req[r].body.appointment_date)
  /\ a.appointment_time = m

\* C3: the answer of the available-slot operation lists, once each, exactly
\* the markers of the 60 from 08:00:00 to 17:50:00 that no pending or approved
\* appointment of that doctor on that day holds; a rejected, cancelled or
\* completed appointment removes nothing.
C3_AvailableSlots ==
  \A r \in Slots :
    DoneSlots(r) =>
      /\ Cardinality(Markers) = 60
      /\ Range(req[r].out) \subseteq Markers
      /\ Len(req[r].out) = Cardinality(Range(req[r].out))
      /\ \A m \in Markers :
            m \in Range(req[r].out) <=>
              ~ \E i \in 1..Len(appointments) :
                  /\ Holds(appointments[i], r, m)
                  /\ appointments[i].status \in {"pending", "approved"}

\* one marker of the day is taken by an approved appointment and another is
\* listed although a rejected, cancelled or completed appointment holds it
C3_Witness ==
  /\ DoneSlots(1)
  /\ Len(req[1].out) = 59
  /\ \E i, j \in 1..Len(appointments) :
        /\ Holds(appointments[i], 1, "17:50:00")
        /\ appointments[i].status = "approved"
        /\ Holds(appointments[j], 1, "08:00:00")
        /\ appointments[j].status \in {"rejected", "cancelled", "completed"}
        /\ "08:00:00" \in Range(req[1].out)

----------------------------------------------------------------------------
(* Consultations for two booked appointments *)

\* the state after P1 booked doctor D1 and P2 booked doctor D2
InitBooked ==
  /\ appointments =
       <<[_id |-> 1, patient_id |-> "P1", doctor_id |-> "D1",
          appointment_date |-> 20240601, appointment_time |-> "09:00:00",
          status |-> "pending", rejection_reason |-> NoVal, hospital_id |-> "H1",
          department_id |-> "DP1"],
         [_id |-> 2, patient_id |-> "P2", doctor_id |-> "D2",
          appointment_date |-> 20240601, appointment_time |-> "09:00:00",
          status |-> "pending", rejection_reason |-> NoVal, hospital_id |-> "H2",
          department_id |-> "DP1"]>>
  /\ consultations = <<>>
  /\ notifications =
       <<Notification("UD1", "New Appointment Request", 1),
         Notification("UD2", "New Appointment Request", 2)>>
  /\ prescriptions = <<>>
  /\ pharmacyRequests = <<>>
  /\ insurances = InsuranceDocs
  /\ payments = <<>>
  /\ labRequests = <<>>
  /\ labResults = <<>>
  /\ profiles = <<>>
  /\ medications = <<>>
  /\ req = [r \in Slots |-> Idle]

ConsultationBodies(ids, patients, doctors) ==
  {[patient_id |-> p, doctor_id |-> d, appointment_id |-> a] :
     a \in ids, p \in patients, d \in doctors}

\* concurrent consultation requests, and updates that move the first
\* consultation to another appointment
NextConsultRace ==
  \/ \E r \in Slots, caller \in {"UD1", "UD2", "P1"},
         body \in ConsultationBodies(1..2, {NoVal}, {NoVal}) :
       ConsCreateBegin(r, caller, body)
  \/ \E r \in Slots : ConsCreateFind(r)
  \/ \E r \in Slots : ConsCreateSave(r)
  \/ \E r \in Slots, body \in ConsultationBodies(1..2, {NoVal}, {NoVal}) :
       ConsUpdateFind(r, "P1", 1, body)
  \/ \E r \in Slots : ConsUpdateWrite(r)

SpecConsultRace == InitBooked /\ [][NextConsultRace]_vars

\* consultation requests one at a time, by callers of every role
NextConsult ==
  \/ \E caller \in Profiles,
         body \in ConsultationBodies(1..3, {NoVal, "P1", "P2"}, {NoVal, "D1", "D2"}) :
       ConsCreateBegin(1, caller, body)
  \/ ConsCreateFind(1)
  \/ ConsCreateSave(1)
  \/ \E caller \in {"UD1", "UD2", "P2"}, id \in {1, 9},
         body \in ConsultationBodies({2}, {"P2"}, {"D2"})
                    \cup ConsultationBodies({0, 9}, {NoVal}, {NoVal}) :
       ConsUpdateFind(1, caller, id, body)
  \/ ConsUpdateWrite(1)

SpecConsult == InitBooked /\ [][NextConsult]_vars

DoneConsult(r) == req[r].pc = "done" /\ req[r].op = "createConsultation"

\* the consultations of an appointment
ConsultationsOf(appointmentId) ==
  {i \in 1..Len(consultations) : consultations[i].appointment_id = appointmentId}

\* C4: in every state at most one Consultation exists per appointment_id; a
\* create that is answered while a consultation of its appointment exists
\* fails and adds nothing; a create that succeeds adds exactly its document.
C4_OneConsultationPerAppointment ==
  /\ [](\A i, j \in 1..Len(consultations) :
          i # j => consultations[i].appointment_id # consultations[j].appointment_id)
  /\ [][\A r \in Slots :
          Answered(r, "createConsultation")
            => IF req'[r].code = 201
                 THEN /\ ConsultationsOf(req'[r].doc.appointment_id) = {}
                      /\ consultations' = Append(consultations, req'[r].doc)
                 ELSE consultations' = consultations]_vars
  /\ [][\A r \in Slots :
          (Answered(r, "createConsultation") /\ req[r].pc = "save"
             /\ ConsultationsOf(req[r].doc.appointment_id) # {})
            => req'[r].code = 500]_vars

\* two requests of the doctor for one appointment: one recorded the
\* consultation, the other failed on the index
C4_Witness ==
  \E r, q \in Slots :
    /\ DoneConsult(r) /\ req[r].code = 201
    /\ DoneConsult(q) /\ req[q].code = 500
    /\ req[q].doc.appointment_id = req[r].doc.appointment_id
    /\ Len(consultations) = 1

\* C5: a consultation is inserted only by a request of the doctor of its
\* appointment, with the patient_id and doctor_id of that appointment whatever
\* the body names; a caller who is not that doctor is answered 403 and nothing
\* is inserted.
C5_ReferencesFromAppointment ==
  [][\A r \in Slots :
       /\ (req'[r] # req[r] /\ Len(consultations') > Len(consultations))
            => LET c == consultations'[Len(consultations')]
                   a == appointments[c.appointment_id]
               IN  /\ c.patient_id = a.patient_id
                   /\ c.doctor_id = a.doctor_id
                   /\ DoctorFindOneByUser(req[r].caller)._id = a.doctor_id
       /\ (req'[r] # req[r] /\ DoneConsult(r)'
              /\ req'[r].body.appointment_id \in 1..Len(appointments)
              /\ DoctorFindOneByUser(req'[r].caller)._id
                   # appointments[req'[r].body.appointment_id].doctor_id)
            => /\ req'[r].code = 403
               /\ UNCHANGED consultations]_vars

\* doctor D1 recorded a consultation for the appointment of P1 with a body
\* that names patient P2 and doctor D2
C5_Witness ==
  /\ DoneConsult(1) /\ req[1].code = 201
  /\ req[1].caller = "UD1"
  /\ req[1].body.patient_id = "P2" /\ req[1].body.doctor_id = "D2"
  /\ consultations[req[1].id].patient_id = "P1"
  /\ consultations[req[1].id].doctor_id = "D1"

\* C8: after a successful consultation-create the appointment of the
\* consultation is in status completed.
C8_ConsultationCompletesAppointment ==
  \A r \in Slots :
    (DoneConsult(r) /\ req[r].code = 201)
      => appointments[req[r].doc.appointment_id].status = "completed"

----------------------------------------------------------------------------
(* Values of a JSON body: a number is written as its JSON text, an absent *)
(* field as NoVal, and every other text is a string                        *)

\* the numbers the request bodies use
NumberLiterals ==
  {<<"-1", -1>>, <<"0", 0>>, <<"1", 1>>, <<"2", 2>>, <<"3", 3>>, <<"7", 7>>,
   <<"30", 30>>, <<"100", 100>>, <<"150", 150>>, <<"500", 500>>, <<"700", 700>>, <<"1200", 1200>>,
   <<"5000", 5000>>}

\* typeof v === 'number'
IsNumber(v) == \E l \in NumberLiterals : l[1] = v

\* the value of a number of the body
ToNumber(v) == (CHOOSE l \in NumberLiterals : l[1] = v)[2]

\* !v is false: v is not undefined, 0 or the empty string
Truthy(v) == v \notin {NoVal, "0", ""}

\* String.prototype.trim on the dosage texts in use
Trim(str) == IF str \in {" ", "  "} THEN "" ELSE str

\* v || 0 for a price
OrZero(v) == IF Truthy(v) THEN ToNumber(v) ELSE 0

----------------------------------------------------------------------------
(* POST /api/prescriptions *)

\* number of items of one prescribing request
MaxItems == 2
\* size of the Prescription collection up to which a batch is admitted
MaxPrescriptions == 2

\* the checks of the validation loop on one item, in their order
ItemProblem(item) ==
  IF ~Truthy(item.medication_id)
    THEN "medication_id is required"
    ELSE IF ~Truthy(item.quantity)
              \/ (IsNumber(item.quantity) /\ ToNumber(item.quantity) <= 0)
      THEN "quantity must be greater than 0"
      ELSE IF ~Truthy(item.dosage) \/ ~Truthy(Trim(item.dosage))
        THEN "dosage is required"
        ELSE NoVal

\* index of the first item the loop rejects, 0 when it rejects none
FirstInvalid(items) ==
  IF \E i \in 1..Len(items) : ItemProblem(items[i]) # NoVal
    THEN CHOOSE i \in 1..Len(items) :
           /\ ItemProblem(items[i]) # NoVal
           /\ \A j \in 1..(i - 1) : ItemProblem(items[j]) = NoVal
    ELSE 0

ItemError(items) ==
  "Item " \o ToString(FirstInvalid(items)) \o ": "
    \o ItemProblem(items[FirstInvalid(items)])

\* the price of one line without its quantity
TotalPriceOfUnit(item) == OrZero(item.unit_price)

\* (item.unit_price || 0) * item.quantity
TotalPrice(item) == OrZero(item.unit_price) * ToNumber(item.quantity)

\* new Prescription({...}) for one item
NewPrescription(item, data, doctor) ==
  [_id |-> 0, patient_id |-> data.patient_id, doctor_id |-> doctor._id,
   status |-> IF Truthy(data.status) THEN data.status ELSE "pending",
   medication_id |-> item.medication_id, quantity |-> ToNumber(item.quantity),
   dosage |-> item.dosage, unit_price |-> OrZero(item.unit_price),
   consultation_id |-> data.consultation_id, total_price |-> TotalPrice(item),
   pharmacy_id |-> NoVal]

PrescriptionStatusEnum == {"pending", "approved", "rejected", "completed", "paid"}

\* prescription.save() validation: required paths, Number casts and the enum
PrescriptionValid(item, data) ==
  /\ data.consultation_id # NoVal
  /\ data.patient_id # NoVal
  /\ item.medication_id # NoVal
  /\ item.dosage \notin {NoVal, ""}
  /\ IsNumber(item.quantity)
  /\ ~Truthy(item.unit_price) \/ IsNumber(item.unit_price)
  /\ ~Truthy(data.status) \/ data.status \in PrescriptionStatusEnum

PrescriptionsFit(items) == Len(prescriptions) + Len(items) <= MaxPrescriptions

\* the role gate, the validation loop and Doctor.findOne
PrescCreateBegin(r, caller, body) ==
  /\ Free(r)
  /\ IF Role(caller) # "doctor"
       THEN Respond(r, "createPrescriptions", caller, 0, EmptyDoc, body, 403,
                    "Only doctors can create prescriptions")
       ELSE IF Len(body.items) = 0
         THEN Respond(r, "createPrescriptions", caller, 0, EmptyDoc, body, 400,
                      "Prescription must contain at least one medication item")
         ELSE IF FirstInvalid(body.items) # 0
           THEN Respond(r, "createPrescriptions", caller, 0, EmptyDoc, body, 400,
                        ItemError(body.items))
           ELSE IF DoctorFindOneByUser(caller) = NoDoctor
             THEN Respond(r, "createPrescriptions", caller, 0, EmptyDoc, body, 404,
                          "Doctor profile not found")
             ELSE req' = [req EXCEPT ![r] =
                            [Idle EXCEPT !.pc = "save", !.op = "createPrescriptions",
                                         !.caller = caller, !.body = body]]
  /\ UNCHANGED <<bookingVars, dispensingVars, labVars, registryVars>>

\* one turn of the creation loop: prescription.save() of the next item; the
\* response follows the save of the last one
PrescCreateSave(r) ==
  /\ req[r].pc = "save"
  /\ req[r].op = "createPrescriptions"
  /\ LET body == req[r].body
         item == body.items[Len(req[r].out) + 1]
         saved == [NewPrescription(item, body, DoctorFindOneByUser(req[r].caller))
                     EXCEPT !._id = Len(prescriptions) + 1]
         created == Append(req[r].out, saved)
     IN  IF ~PrescriptionValid(item, body)
           THEN /\ Respond(r, "createPrescriptions", req[r].caller, 0, EmptyDoc, body,
                           500, "ValidationError")
                /\ UNCHANGED prescriptions
           ELSE /\ prescriptions' = Append(prescriptions, saved)
                /\ req' = [req EXCEPT ![r] =
                             IF Len(created) = Len(body.items)
                               THEN [id |-> 0, caller |-> req[r].caller, body |-> body,
                                     doc |-> EmptyDoc, pc |-> "done",
                                     op |-> "createPrescriptions", code |-> 201,
                                     err |-> NoVal, out |-> created,
                                     count |-> Len(created)]
                               ELSE [req[r] EXCEPT !.out = created]]
  /\ UNCHANGED <<bookingVars, pharmacyRequests, insurances, payments, labVars, registryVars>>

----------------------------------------------------------------------------
(* Prescribing, one request after the other *)

ItemA ==
  [medication_id |-> "M1", quantity |-> "2", dosage |-> "1 tablet", unit_price |-> "500"]

ItemB ==
  [medication_id |-> "M2", quantity |-> "1", dosage |-> "2 drops", unit_price |-> "1200"]

\* two priced lines, a line without a price, and one line for each way of
\* being refused: no medication, a zero and a non-numeric quantity, a blank
\* dosage
PrescriptionItems ==
  {ItemA, ItemB, [ItemB EXCEPT !.unit_price = NoVal],
   [ItemA EXCEPT !.medication_id = NoVal], [ItemA EXCEPT !.dosage = "  "]}
    \cup {[ItemA EXCEPT !.quantity = q] : q \in {"0", "two"}}

ItemLists == UNION {[1..n -> PrescriptionItems] : n \in 0..MaxItems}

PrescriptionBody(items) ==
  [patient_id |-> "P1", status |-> NoVal, items |-> items, consultation_id |-> "CN1"]

NextPrescribe ==
  \/ \E items \in ItemLists :
       PrescriptionsFit(items) /\ PrescCreateBegin(1, "UD1", PrescriptionBody(items))
  \/ \E caller \in {"UD3", "P1", "PH1"} :
       PrescCreateBegin(1, caller, PrescriptionBody(<<ItemA>>))
  \/ PrescCreateSave(1)

SpecPrescribe == Init /\ [][NextPrescribe]_vars

DonePrescribe(r) == req[r].pc = "done" /\ req[r].op = "createPrescriptions"

\* C13: a prescribing request that succeeds on N items has created N
\* documents, one per item in order, each with total_price = unit_price x
\* quantity of its item, and answers with these N documents and count = N.
C13_OnePrescriptionPerItem ==
  \A r \in Slots :
    (DonePrescribe(r) /\ req[r].code = 201)
      => LET items == req[r].body.items
             N == Len(items)
         IN  /\ req[r].count = N
             /\ Len(req[r].out) = N
             /\ Len(prescriptions) >= N
             /\ \A i \in 1..N :
                  /\ req[r].out[i]._id = Len(prescriptions) - N + i
                  /\ prescriptions[req[r].out[i]._id] = req[r].out[i]
                  /\ req[r].out[i].medication_id = items[i].medication_id
                  /\ req[r].out[i].quantity = ToNumber(items[i].quantity)
                  /\ req[r].out[i].unit_price = OrZero(items[i].unit_price)
                  /\ req[r].out[i].total_price
                       = OrZero(items[i].unit_price) * ToNumber(items[i].quantity)
                  /\ req[r].out[i].total_price
                       = req[r].out[i].unit_price * req[r].out[i].quantity

\* medication M1, 2 at 500, and medication M2, 1 at 1200: two documents of
\* totals 1000 and 1200, count 2
C13_Witness ==
  /\ DonePrescribe(1) /\ req[1].code = 201
  /\ req[1].body.items = <<ItemA, ItemB>>
  /\ req[1].count = 2
  /\ Len(prescriptions) = 2
  /\ prescriptions[1].total_price = 1000
  /\ prescriptions[2].total_price = 1200

\* the quantity is a positive integer
PositiveInteger(v) == IsNumber(v) /\ ToNumber(v) > 0

\* an item the prescribing request must refuse
Offending(item) ==
  \/ item.medication_id = NoVal
  \/ ~PositiveInteger(item.quantity)
  \/ item.dosage = NoVal \/ Trim(item.dosage) = ""

\* C14: a prescribing request of a doctor whose item list is empty or holds an
\* item without medication, with a quantity that is not a positive integer or
\* with a blank dosage is answered 400 with the message of the first such
\* item, and no request with such a list ever saves a Prescription.
C14_InvalidItemAbortsBatch ==
  /\ [](\A r \in Slots :
          (DonePrescribe(r) /\ Role(req[r].caller) = "doctor"
             /\ (req[r].body.items = <<>>
                   \/ \E i \in 1..Len(req[r].body.items) :
                        Offending(req[r].body.items[i])))
            => /\ req[r].code = 400
               /\ req[r].body.items # <<>>
                    => \E i \in 1..Len(req[r].body.items) :
                         /\ Offending(req[r].body.items[i])
                         /\ \A j \in 1..(i - 1) : ~Offending(req[r].body.items[j])
                         /\ \E what \in {"medication_id is required",
                                         "quantity must be greater than 0",
                                         "dosage is required"} :
                              req[r].err = "Item " \o ToString(i) \o ": " \o what)
  /\ [][prescriptions' # prescriptions
          => \E r \in Slots :
               /\ req[r].op = "createPrescriptions"
               /\ \A i \in 1..Len(req[r].body.items) :
                    ~Offending(req[r].body.items[i])]_vars

----------------------------------------------------------------------------
(* PUT /api/prescriptions/:id *)

\* the Medication documents; a medication_id outside them resolves to null
MedicationDocs == {"M1", "M2"}

NoPrescription ==
  [_id |-> 0, patient_id |-> NoVal, doctor_id |-> NoVal, status |-> NoVal,
   medication_id |-> NoVal, quantity |-> 0, dosage |-> NoVal, unit_price |-> 0,
   consultation_id |-> NoVal, total_price |-> 0, pharmacy_id |-> NoVal]

EmptyUpdate ==
  [patient_id |-> NoVal, doctor_id |-> NoVal, status |-> NoVal,
   medication_id |-> NoVal, quantity |-> NoVal, dosage |-> NoVal,
   unit_price |-> NoVal, consultation_id |-> NoVal, total_price |-> NoVal,
   pharmacy_id |-> NoVal]

\* Prescription.findById(id): the document, or NoPrescription for null
PrescriptionFindById(id) ==
  IF id \in 1..Len(prescriptions) THEN prescriptions[id] ELSE NoPrescription

\* a caller of role doctor must be the prescribing doctor; other roles pass
MayUpdatePrescription(caller, prescription) ==
  Role(caller) = "doctor"
    => /\ DoctorFindOneByUser(caller) # NoDoctor
       /\ DoctorFindOneByUser(caller)._id = prescription.doctor_id

\* prescription.quantity || 1 on a stored number
OrOne(n) == IF n = 0 THEN 1 ELSE n

\* prescriptionData.total_price: recalculated from the body and the
\* prescription read at the start of the handler, else the body's own value
UpdatedTotalPrice(prescription, body) ==
  IF body.unit_price # NoVal /\ body.quantity # NoVal
    THEN ToNumber(body.unit_price) * ToNumber(body.quantity)
    ELSE IF body.unit_price # NoVal
      THEN ToNumber(body.unit_price) * OrOne(prescription.quantity)
      ELSE IF body.quantity # NoVal
        THEN prescription.unit_price * ToNumber(body.quantity)
        ELSE ToNumber(body.total_price)

\* prescriptionData carries a total_price
SetsTotalPrice(body) ==
  body.unit_price # NoVal \/ body.quantity # NoVal \/ body.total_price # NoVal

\* runValidators on prescriptionData: the Number paths must cast (the
\* total_price of the body only when no recalculation has replaced it), a
\* status must be in the enum, a dosage must not be empty
PrescriptionUpdateValid(body) ==
  /\ \A v \in {body.quantity, body.unit_price} : v = NoVal \/ IsNumber(v)
  /\ (body.quantity = NoVal /\ body.unit_price = NoVal)
       => (body.total_price = NoVal \/ IsNumber(body.total_price))
  /\ body.status # NoVal => body.status \in PrescriptionStatusEnum
  /\ body.dosage # ""

\* the stored document after findByIdAndUpdate(id, prescriptionData): every
\* path of the body is set; read is the document of the recalculation,
\* stored the document the write meets
ApplyPrescriptionUpdate(stored, read, body) ==
  [stored EXCEPT
     !.patient_id = IF body.patient_id # NoVal THEN body.patient_id ELSE @,
     !.doctor_id = IF body.doctor_id # NoVal THEN body.doctor_id ELSE @,
     !.status = IF body.status # NoVal THEN body.status ELSE @,
     !.dosage = IF body.dosage # NoVal THEN body.dosage ELSE @,
     !.consultation_id = IF body.consultation_id # NoVal THEN body.consultation_id
                         ELSE @,
     !.medication_id = IF body.medication_id # NoVal THEN body.medication_id ELSE @,
     !.quantity = IF body.quantity # NoVal THEN ToNumber(body.quantity) ELSE @,
     !.unit_price = IF body.unit_price # NoVal THEN ToNumber(body.unit_price) ELSE @,
     !.total_price = IF SetsTotalPrice(body) THEN UpdatedTotalPrice(read, body) ELSE @,
     !.pharmacy_id = IF body.pharmacy_id # NoVal THEN body.pharmacy_id ELSE @]

\* populate('medication_id') of the updated prescription is not null
MedicationResolved(prescription) == prescription.medication_id \in MedicationDocs

PharmacyRequest(prescription, pharmacy) ==
  [patient_id |-> prescription.patient_id, status |-> "pending",
   pharmacy_id |-> pharmacy, prescription_id |-> prescription._id]

\* a lookup that finds nothing
PharmacyRequestNotFound(coll, prescriptionId, pharmacy) == FALSE

\* PharmacyRequest.findOne({ prescription_id, pharmacy_id }) is not null
PharmacyRequestFound(coll, prescriptionId, pharmacy) ==
  \E i \in 1..Len(coll) :
    coll[i].prescription_id = prescriptionId /\ coll[i].pharmacy_id = pharmacy

PrescRespond(r, code, err, out) ==
  req' = [req EXCEPT ![r] = [req[r] EXCEPT !.pc = "done", !.code = code, !.err = err,
                                            !.out = out]]

\* findById, then the ownership check of a doctor caller
PrescUpdateFind(r, caller, id, body) ==
  /\ Free(r)
  /\ LET prescription == PrescriptionFindById(id)
         started == [Idle EXCEPT !.op = "updatePrescription", !.caller = caller,
                                 !.id = id, !.doc = prescription, !.body = body]
     IN  IF prescription = NoPrescription
           THEN req' = [req EXCEPT ![r] =
                          [started EXCEPT !.pc = "done", !.code = 404,
                                          !.err = "Prescription not found"]]
           ELSE IF ~MayUpdatePrescription(caller, prescription)
             THEN req' = [req EXCEPT ![r] =
                            [started EXCEPT !.pc = "done", !.code = 403,
                                            !.err = "Access denied"]]
             ELSE req' = [req EXCEPT ![r] = [started EXCEPT !.pc = "update"]]
  /\ UNCHANGED <<bookingVars, dispensingVars, labVars, registryVars>>

\* findByIdAndUpdate with runValidators, then the medication check of a
\* pharmacy assignment
PrescUpdateWrite(r) ==
  /\ req[r].pc = "update"
  /\ req[r].op = "updatePrescription"
  /\ LET body == req[r].body
         id == req[r].id
         updated == ApplyPrescriptionUpdate(prescriptions[id], req[r].doc, body)
     IN  IF ~PrescriptionUpdateValid(body)
           THEN /\ PrescRespond(r, 500, "ValidationError", <<>>)
                /\ UNCHANGED prescriptions
           ELSE /\ prescriptions' = [prescriptions EXCEPT ![id] = updated]
                /\ IF ~Truthy(body.pharmacy_id)
                     THEN PrescRespond(r, 200, NoVal, <<updated>>)
                     ELSE IF ~MedicationResolved(updated)
                       THEN PrescRespond(r, 400,
                              "Cannot assign pharmacy: Prescription must have a medication. Please contact the doctor to fix this prescription.",
                              <<>>)
                       ELSE req' = [req EXCEPT ![r] =
                                      [req[r] EXCEPT !.pc = "findRequest",
                                                     !.out = <<updated>>]]
  /\ UNCHANGED <<bookingVars, pharmacyRequests, insurances, payments, labVars, registryVars>>

\* PharmacyRequest.findOne for the pair
PrescUpdateFindRequest(r) ==
  /\ req[r].pc = "findRequest"
  /\ req[r].op = "updatePrescription"
  /\ IF PharmacyRequestFound(pharmacyRequests, req[r].id, req[r].body.pharmacy_id)
       THEN PrescRespond(r, 200, NoVal, req[r].out)
       ELSE req' = [req EXCEPT ![r].pc = "saveRequest"]
  /\ UNCHANGED <<bookingVars, dispensingVars, labVars, registryVars>>

\* new PharmacyRequest({...}).save(), then the response
PrescUpdateSaveRequest(r) ==
  /\ req[r].pc = "saveRequest"
  /\ req[r].op = "updatePrescription"
  /\ pharmacyRequests' =
       Append(pharmacyRequests, PharmacyRequest(req[r].out[1], req[r].body.pharmacy_id))
  /\ PrescRespond(r, 200, NoVal, req[r].out)
  /\ UNCHANGED <<bookingVars, prescriptions, insurances, payments, labVars, registryVars>>

----------------------------------------------------------------------------
(* Dispensing: a batch of two prescriptions, then updates one after the other *)

\* the second line names a medication that has no Medication document
DispenseItems == <<ItemA, [ItemB EXCEPT !.medication_id = "M9"]>>

\* quantity, unit_price and total_price in every combination, and a
\* total_price that is no number, alone and beside a quantity
ValueUpdates ==
  {[EmptyUpdate EXCEPT !.quantity = q, !.unit_price = u, !.total_price = t] :
     q \in {NoVal, "3"}, u \in {NoVal, "700"}, t \in {NoVal, "7"}}
    \cup {[EmptyUpdate EXCEPT !.quantity = q, !.total_price = "two"] : q \in {NoVal, "3"}}

PharmacyUpdates == {[EmptyUpdate EXCEPT !.pharmacy_id = ph] : ph \in {"PY1", "PY2"}}

\* another doctor, another patient, a status of the enum and one outside it
ReferenceUpdates ==
  {[EmptyUpdate EXCEPT !.doctor_id = "D2"], [EmptyUpdate EXCEPT !.patient_id = "P2"],
   [EmptyUpdate EXCEPT !.status = "completed", !.dosage = "3x",
                       !.consultation_id = "CN2"],
   [EmptyUpdate EXCEPT !.status = "lost"]}

NextDispense ==
  \/ PrescriptionsFit(DispenseItems)
       /\ PrescCreateBegin(1, "UD1", PrescriptionBody(DispenseItems))
  \/ PrescCreateSave(1)
  \/ \E body \in ValueUpdates : PrescUpdateFind(1, "UD1", 1, body)
  \/ \E body \in ReferenceUpdates : PrescUpdateFind(1, "UD1", 1, body)
  \/ \E caller \in {"UD1", "PH1"}, id \in 1..2, body \in PharmacyUpdates :
       PrescUpdateFind(1, caller, id, body)
  \/ \E caller \in {"UD2", "UD3"}, id \in {1, 3} :
       PrescUpdateFind(1, caller, id, [EmptyUpdate EXCEPT !.pharmacy_id = "PY1"])
  \/ PrescUpdateWrite(1)
  \/ PrescUpdateFindRequest(1)
  \/ PrescUpdateSaveRequest(1)

SpecDispense == Init /\ [][NextDispense]_vars

DonePrescUpdate(r) == req[r].pc = "done" /\ req[r].op = "updatePrescription"

RequestsFor(prescriptionId, pharmacy) ==
  {i \in 1..Len(pharmacyRequests) :
     /\ pharmacyRequests[i].prescription_id = prescriptionId
     /\ pharmacyRequests[i].pharmacy_id = pharmacy}

\* C15: when prescription updates run one after the other, an update that
\* assigns a pharmacy and succeeds leaves exactly one PharmacyRequest for the
\* (prescription, pharmacy) pair, also when the pair was assigned before, and
\* no pair ever has two.
C15_OneRequestPerPair ==
  /\ \A i \in 1..Len(pharmacyRequests) :
       Cardinality(RequestsFor(pharmacyRequests[i].prescription_id,
                               pharmacyRequests[i].pharmacy_id)) = 1
  /\ \A r \in Slots :
       (DonePrescUpdate(r) /\ req[r].code = 200 /\ req[r].body.pharmacy_id # NoVal)
         => Cardinality(RequestsFor(req[r].id, req[r].body.pharmacy_id)) = 1

\* the second assignment of the same pharmacy has answered
C15_Witness ==
  /\ DonePrescUpdate(1) /\ req[1].code = 200
  /\ req[1].body.pharmacy_id = "PY1"
  /\ req[1].doc.pharmacy_id = "PY1"
  /\ Cardinality(RequestsFor(req[1].id, "PY1")) = 1

\* C16: an update that assigns a pharmacy to a prescription whose medication
\* does not resolve is answered 400, leaves the stored prescription as it was
\* read and creates no PharmacyRequest.
C16_NoWriteBeforeMedicationCheck ==
  \A r \in Slots :
    (DonePrescUpdate(r) /\ req[r].body.pharmacy_id # NoVal
       /\ req[r].code \notin {403, 404}
       /\ ~MedicationResolved(req[r].doc))
      => /\ req[r].code = 400
         /\ prescriptions[req[r].id] = req[r].doc
         /\ RequestsFor(req[r].id, req[r].body.pharmacy_id) = {}

\* C17: every stored prescription has total_price = unit_price x quantity.
C17_TotalPriceInvariant ==
  \A i \in 1..Len(prescriptions) :
    prescriptions[i].total_price = prescriptions[i].unit_price * prescriptions[i].quantity

----------------------------------------------------------------------------
(* POST /api/payments and DELETE /api/insurances/:id *)

\* size of the Payment collection up to which payments are admitted
MaxPayments == 2

PaymentTypeEnum == {"consultation", "lab_test", "medication"}

NoPayment ==
  [_id |-> 0, patient_id |-> NoVal, status |-> NoVal, reference_id |-> NoVal,
   payment_type |-> NoVal, amount |-> 0, insurance_coverage |-> 0, patient_pays |-> 0]

\* Insurance.findById(id) is not null
InsuranceFound(id) == \E ins \in insurances : ins._id = id

InsuranceFindById(id) == CHOOSE ins \in insurances : ins._id = id

\* the product without its division
InsuranceCoverageUndivided(amount, insurance) == amount * insurance.coverage_percentage

\* (amount * insurance.coverage_percentage) / 100; the amounts in use are
\* multiples of 100, for which the quotient is an integer
InsuranceCoverage(amount, insurance) == (amount * insurance.coverage_percentage) \div 100

\* new Payment({...}) with patientPays = amount - insuranceCoverage
NewPayment(caller, body, insuranceCoverage) ==
  [_id |-> 0, patient_id |-> caller, status |-> "completed",
   reference_id |-> body.reference_id, payment_type |-> body.payment_type,
   amount |-> ToNumber(body.amount), insurance_coverage |-> insuranceCoverage,
   patient_pays |-> ToNumber(body.amount) - insuranceCoverage]

\* payment.save() validation: required paths, the Number cast and the enum
PaymentValid(body) ==
  /\ IsNumber(body.amount)
  /\ body.payment_type \in PaymentTypeEnum
  /\ body.reference_id # NoVal

PaymentsFit == Len(payments) < MaxPayments

\* the role gate, then Profile.findById(...).populate('insurance_id')
PayBegin(r, caller, body) ==
  /\ Free(r)
  /\ IF Role(caller) # "patient"
       THEN Respond(r, "createPayment", caller, 0, EmptyDoc, body, 403,
                    "Only patients can create payments")
       ELSE req' = [req EXCEPT ![r] =
                      [Idle EXCEPT !.pc = IF InsuranceFound(InsuranceRef(caller))
                                            THEN "insurance" ELSE "save",
                                   !.op = "createPayment", !.caller = caller,
                                   !.body = body, !.doc = NoPayment]]
  /\ UNCHANGED <<bookingVars, dispensingVars, labVars, registryVars>>

\* Insurance.findById(patient.insurance_id) and the coverage it gives
PayInsurance(r) ==
  /\ req[r].pc = "insurance"
  /\ req[r].op = "createPayment"
  /\ LET ref == InsuranceRef(req[r].caller)
         covered == InsuranceFound(ref) /\ IsNumber(req[r].body.amount)
     IN  req' = [req EXCEPT ![r] =
                   [req[r] EXCEPT
                      !.pc = "save",
                      !.doc = IF covered
                                THEN [NoPayment EXCEPT !.insurance_coverage =
                                        InsuranceCoverage(ToNumber(req[r].body.amount),
                                                          InsuranceFindById(ref))]
                                ELSE NoPayment]]
  /\ UNCHANGED <<bookingVars, dispensingVars, labVars, registryVars>>

\* payment.save() and the 201 response
PaySave(r) ==
  /\ req[r].pc = "save"
  /\ req[r].op = "createPayment"
  /\ LET body == req[r].body
         payment == [NewPayment(req[r].caller, body, req[r].doc.insurance_coverage)
                       EXCEPT !._id = Len(payments) + 1]
     IN  IF ~PaymentValid(body)
           THEN /\ Respond(r, "createPayment", req[r].caller, 0, NoPayment, body, 500,
                           "ValidationError")
                /\ UNCHANGED payments
           ELSE /\ payments' = Append(payments, payment)
                /\ Respond(r, "createPayment", req[r].caller, payment._id, payment, body,
                           201, NoVal)
  /\ UNCHANGED <<bookingVars, prescriptions, pharmacyRequests, insurances, labVars, registryVars>>

\* the validators of insuranceSchema on the paths a body sets: name required,
\* coverage_percentage a number from 0 to 100
InsuranceBodyValid(body) ==
  /\ body.name # ""
  /\ body.coverage_percentage # NoVal
       => /\ IsNumber(body.coverage_percentage)
          /\ ToNumber(body.coverage_percentage) >= 0
          /\ ToNumber(body.coverage_percentage) <= 100

\* the _id the storage gives the next Insurance document
NewInsuranceId == "I50"

\* new Insurance(req.body): coverage_percentage with its default 0
NewInsurance(body) ==
  [_id |-> NewInsuranceId, coverage_percentage |-> OrZero(body.coverage_percentage)]

\* POST /api/insurances for a caller that passed authorize('admin'):
\* new Insurance(req.body).save(), 201; catch 500
InsuranceCreate(r, caller, body) ==
  /\ Free(r)
  /\ IF body.name = NoVal \/ ~InsuranceBodyValid(body)
       THEN /\ UNCHANGED insurances
            /\ Respond(r, "createInsurance", caller, 0, EmptyDoc, body, 500,
                       "ValidationError")
       ELSE /\ insurances' = insurances \cup {NewInsurance(body)}
            /\ Respond(r, "createInsurance", caller, 0, EmptyDoc, body, 201, NoVal)
  /\ UNCHANGED <<bookingVars, prescriptions, pharmacyRequests, payments, labVars, registryVars>>

\* PUT /api/insurances/:id for a caller that passed authorize('admin'):
\* Insurance.findByIdAndUpdate(id, req.body, { runValidators }), 404 for null
InsuranceUpdate(r, caller, id, body) ==
  /\ Free(r)
  /\ IF ~InsuranceBodyValid(body)
       THEN /\ UNCHANGED insurances
            /\ Respond(r, "updateInsurance", caller, 0, EmptyDoc, body, 500,
                       "ValidationError")
       ELSE IF ~InsuranceFound(id)
         THEN /\ UNCHANGED insurances
              /\ Respond(r, "updateInsurance", caller, 0, EmptyDoc, body, 404,
                         "Insurance not found")
         ELSE /\ insurances' =
                   (insurances \ {InsuranceFindById(id)})
                     \cup {[InsuranceFindById(id) EXCEPT
                              !.coverage_percentage =
                                IF body.coverage_percentage = NoVal THEN @
                                ELSE ToNumber(body.coverage_percentage)]}
              /\ Respond(r, "updateInsurance", caller, 0, EmptyDoc, body, 200, NoVal)
  /\ UNCHANGED <<bookingVars, prescriptions, pharmacyRequests, payments, labVars, registryVars>>

\* Insurance.findByIdAndDelete(id), for a caller that passed authorize('admin')
InsuranceDelete(r, caller, id) ==
  /\ Free(r)
  /\ IF InsuranceFound(id)
       THEN /\ insurances' = insurances \ {InsuranceFindById(id)}
            /\ Respond(r, "deleteInsurance", caller, 0, EmptyDoc, EmptyBody, 200, NoVal)
       ELSE /\ UNCHANGED insurances
            /\ Respond(r, "deleteInsurance", caller, 0, EmptyDoc, EmptyBody, 404,
                       "Insurance not found")
  /\ UNCHANGED <<bookingVars, prescriptions, pharmacyRequests, payments, labVars, registryVars>>

----------------------------------------------------------------------------
(* Payments of an uninsured and of an insured patient *)

PaymentBodies ==
  {[reference_id |-> "LR1", payment_type |-> t, amount |-> a] :
     a \in {"5000", "700", NoVal}, t \in {"lab_test", "gift"}}

InsuranceBodies ==
  {[coverage_percentage |-> c, name |-> n] :
     n \in {"Basic", NoVal}, c \in {"100", NoVal}}

InsuranceUpdates ==
  {[coverage_percentage |-> c, name |-> NoVal] : c \in {"100", "150"}}

NextPay ==
  \/ \E caller \in {"P1", "P2", "UD1"}, body \in PaymentBodies :
       PaymentsFit /\ PayBegin(1, caller, body)
  \/ PayInsurance(1)
  \/ PaySave(1)
  \/ \E id \in {"I30", "I9"} : InsuranceDelete(1, "A1", id)
  \/ \E body \in InsuranceBodies :
       ~InsuranceFound(NewInsuranceId) /\ InsuranceCreate(1, "A1", body)
  \/ \E id \in {"I30", "I9"}, body \in InsuranceUpdates :
       InsuranceUpdate(1, "A1", id, body)

SpecPay == Init /\ [][NextPay]_vars

DonePay(r) == req[r].pc = "done" /\ req[r].op = "createPayment"

\* C18 as claimed: a recorded payment of a patient who has an insurance
\* reference has insurance_coverage = amount x coverage_percentage / 100 of the
\* insurance referred to, a payment of a patient without reference has 0, and
\* patient_pays = amount - insurance_coverage.
C18_CoverageByReference ==
  \A r \in Slots :
    (DonePay(r) /\ req[r].code = 201)
      => LET payment == payments[req[r].id]
             ref == InsuranceRef(req[r].caller)
         IN  /\ payment.patient_pays = payment.amount - payment.insurance_coverage
             /\ ref = NoVal => payment.insurance_coverage = 0
             /\ ref # NoVal
                  => \E ins \in insurances :
                       /\ ins._id = ref
                       /\ payment.insurance_coverage * 100
                            = payment.amount * ins.coverage_percentage

\* C18: a recorded payment has insurance_coverage = amount x
\* coverage_percentage / 100 when the patient's insurance reference resolves
\* to an Insurance document, and 0 when the patient has no reference or the
\* reference resolves to none; patient_pays = amount - insurance_coverage.
C18_CoverageByResolvedReference ==
  /\ \A i \in 1..Len(payments) :
       payments[i].patient_pays = payments[i].amount - payments[i].insurance_coverage
  /\ \A r \in Slots :
       (DonePay(r) /\ req[r].code = 201)
         => LET payment == payments[req[r].id]
                ref == InsuranceRef(req[r].caller)
            IN  /\ payment.amount = ToNumber(req[r].body.amount)
                /\ payment.patient_id = req[r].caller
                /\ IF InsuranceFound(ref)
                     THEN payment.insurance_coverage * 100
                            = payment.amount * InsuranceFindById(ref).coverage_percentage
                     ELSE payment.insurance_coverage = 0

\* 5000 paid by the patient insured at 30%: 1500 covered, 3500 to pay; and
\* 5000 paid by the uninsured patient: 0 covered, 5000 to pay
C18_Witness ==
  /\ \E i \in 1..Len(payments) :
       /\ payments[i].patient_id = "P2" /\ payments[i].amount = 5000
       /\ payments[i].insurance_coverage = 1500 /\ payments[i].patient_pays = 3500
  /\ \E i \in 1..Len(payments) :
       /\ payments[i].patient_id = "P1" /\ payments[i].amount = 5000
       /\ payments[i].insurance_coverage = 0 /\ payments[i].patient_pays = 5000

----------------------------------------------------------------------------
(* POST /api/lab-tests/results *)

\* size of the LabTestResult collection up to which results are admitted
MaxLabResults == 2

LabRequestStatusEnum == {"awaiting_payment", "pending", "in_progress", "completed"}

ResultStatusEnum == {"positive", "negative", "inconclusive"}

\* a lab_test_request_id of 0 stands for an absent one
NoLabRequest ==
  [_id |-> 0, patient_id |-> NoVal, doctor_id |-> NoVal, status |-> NoVal,
   hospital_id |-> NoVal, consultation_id |-> 0, lab_test_template_id |-> NoVal]

\* the day the results are recorded on
Today == 20240602

\* the first instant of a day; 0 for no day
Instant(day) == day * 100

\* the instants of today that the clock is followed through
MaxTicks == 2

TodayInstants == {Instant(Today) + k : k \in 1..MaxTicks}

\* new LabTestResult({ ...req.body, technician_id: req.user._id }): the
\* completed_at of the body cast to a Date (0 when the cast fails), or the
\* schema default Date.now
NewLabResult(caller, body, now) ==
  [_id |-> 0, lab_test_request_id |-> body.lab_test_request_id,
   technician_id |-> caller, result_status |-> body.result_status,
   result_data |-> body.result_data,
   completed_at |-> IF body.completed_at = NoVal THEN now
                    ELSE Instant(ParseDate(body.completed_at))]

\* result.save() validation: required paths, the enum and the Date cast
LabResultValid(doc) ==
  /\ doc.lab_test_request_id # 0
  /\ doc.result_status \in ResultStatusEnum
  /\ doc.result_data \notin {NoVal, ""}
  /\ doc.completed_at # 0

\* an index that admits every document
LabResultIndexDropped(coll, doc) == TRUE

\* unique index on lab_test_request_id
LabResultIndexFree(coll, doc) ==
  \A i \in 1..Len(coll) : coll[i].lab_test_request_id # doc.lab_test_request_id

\* populate('lab_test_request_id'): the request, or NoLabRequest for null
LabRequestFindById(id) ==
  IF id \in 1..Len(labRequests) THEN labRequests[id] ELSE NoLabRequest

LabResultsFit == Len(labResults) < MaxLabResults

\* the instants of today that a result, stored or about to be saved, has
\* taken from the clock
ReadInstants ==
  ({labResults[i].completed_at : i \in 1..Len(labResults)}
     \cup {req[r].doc.completed_at : r \in {q \in Slots : req[q].pc = "saveResult"}})
    \cap TodayInstants

\* Date.now: an instant of today, not before any instant read earlier
DateNow == {t \in TodayInstants : \A u \in ReadInstants : t >= u}

\* new LabTestResult(...), for a caller that passed
\* authorize('lab_technician'): the default completed_at is read here, before
\* the save
LabResultNew(r, caller, body) ==
  /\ Free(r)
  /\ \E now \in DateNow :
       req' = [req EXCEPT ![r] =
                 [Idle EXCEPT !.pc = "saveResult", !.op = "recordResult",
                              !.caller = caller, !.body = body,
                              !.doc = NewLabResult(caller, body, now)]]
  /\ UNCHANGED <<bookingVars, dispensingVars, labVars, registryVars>>

\* result.save(): validation, then the insert under the unique index
LabResultSave(r) ==
  /\ req[r].pc = "saveResult"
  /\ req[r].op = "recordResult"
  /\ LET caller == req[r].caller
         body == req[r].body
         result == [req[r].doc EXCEPT !._id = Len(labResults) + 1]
     IN  IF ~LabResultValid(result)
           THEN /\ Respond(r, "recordResult", caller, 0, NoLabRequest, body, 500,
                           "ValidationError")
                /\ UNCHANGED labResults
           ELSE IF ~LabResultIndexFree(labResults, result)
             THEN /\ Respond(r, "recordResult", caller, 0, NoLabRequest, body, 500,
                             "E11000 duplicate key error")
                  /\ UNCHANGED labResults
             ELSE /\ labResults' = Append(labResults, result)
                  /\ req' = [req EXCEPT ![r] =
                               [Idle EXCEPT !.pc = "populate", !.op = "recordResult",
                                            !.caller = caller, !.id = result._id,
                                            !.doc = NoLabRequest, !.body = body]]
  /\ UNCHANGED <<bookingVars, dispensingVars, registryVars, labRequests>>

\* result.populate('lab_test_request_id'); reading ._id of a null request throws
LabResultPopulate(r) ==
  /\ req[r].pc = "populate"
  /\ req[r].op = "recordResult"
  /\ LET request == LabRequestFindById(req[r].body.lab_test_request_id)
     IN  IF request = NoLabRequest
           THEN Respond(r, "recordResult", req[r].caller, req[r].id, NoLabRequest,
                        req[r].body, 500, "Cannot read properties of null")
           ELSE req' = [req EXCEPT ![r] = [req[r] EXCEPT !.pc = "complete",
                                                          !.doc = request]]
  /\ UNCHANGED <<bookingVars, dispensingVars, labVars, registryVars>>

\* LabTestRequest.findByIdAndUpdate(id, { status: 'completed' }), then 201
LabResultComplete(r) ==
  /\ req[r].pc = "complete"
  /\ req[r].op = "recordResult"
  /\ labRequests' = [labRequests EXCEPT ![req[r].doc._id].status = "completed"]
  /\ Respond(r, "recordResult", req[r].caller, req[r].id, req[r].doc, req[r].body,
             201, NoVal)
  /\ UNCHANGED <<bookingVars, dispensingVars, registryVars, labResults>>

----------------------------------------------------------------------------
(* GET /api/lab-tests/requests *)

\* Hospital.find({ lab_user_id }).select('_id')
HospitalIdsOf(caller) == {h._id : h \in {x \in HospitalDocs : x.lab_user_id = caller}}

\* query.patient_id, query.doctor_id: the conditions of the caller's role
RoleFilter(caller, request) ==
  /\ Role(caller) = "patient" => request.patient_id = caller
  /\ (Role(caller) = "doctor" /\ DoctorFindOneByUser(caller) # NoDoctor)
       => request.doctor_id = DoctorFindOneByUser(caller)._id

\* query.hospital_id: { $in: hospitalIds } for a lab technician, replaced by
\* req.query.hospitalId when the parameter is given
HospitalFilter(caller, hospitalId, request) ==
  IF Truthy(hospitalId)
    THEN request.hospital_id = hospitalId
    ELSE Role(caller) = "lab_technician" => request.hospital_id \in HospitalIdsOf(caller)

LabQuery(caller, hospitalId, request) ==
  RoleFilter(caller, request) /\ HospitalFilter(caller, hospitalId, request)

\* the matching documents, newest first
RECURSIVE FindNewestFirst(_, _, _, _)
FindNewestFirst(coll, n, caller, hospitalId) ==
  IF n = 0
    THEN <<>>
    ELSE IF LabQuery(caller, hospitalId, coll[n])
      THEN <<coll[n]>> \o FindNewestFirst(coll, n - 1, caller, hospitalId)
      ELSE FindNewestFirst(coll, n - 1, caller, hospitalId)

LabRequestList(r, caller, hospitalId) ==
  /\ Free(r)
  /\ req' = [req EXCEPT ![r] =
               [Idle EXCEPT
                  !.pc = "done", !.op = "listLabRequests", !.caller = caller,
                  !.body = [hospitalId |-> hospitalId], !.code = 200,
                  !.doc = NoLabRequest,
                  !.out = IF Role(caller) = "lab_technician" /\ HospitalIdsOf(caller) = {}
                            THEN <<>>
                            ELSE FindNewestFirst(labRequests, Len(labRequests), caller,
                                                 hospitalId)]]
  /\ UNCHANGED <<bookingVars, dispensingVars, labVars, registryVars>>

----------------------------------------------------------------------------
(* The lab: requests of two hospitals, results recorded at the same time *)

\* the state after two appointments were booked, a consultation was opened
\* for each, and the second consultation was updated to name an appointment
\* that does not exist
ConsultedBooking ==
  /\ appointments =
       <<[_id |-> 1, patient_id |-> "P1", doctor_id |-> "D1",
          appointment_date |-> 20240601, appointment_time |-> "09:10:00",
          status |-> "completed", rejection_reason |-> NoVal, hospital_id |-> "H1",
          department_id |-> "DP1"],
         [_id |-> 2, patient_id |-> "P2", doctor_id |-> "D2",
          appointment_date |-> 20240601, appointment_time |-> "09:00:00",
          status |-> "completed", rejection_reason |-> NoVal, hospital_id |-> "H2",
          department_id |-> "DP1"]>>
  /\ consultations =
       <<[_id |-> 1, patient_id |-> "P1", doctor_id |-> "D1", appointment_id |-> 1],
         [_id |-> 2, patient_id |-> "P2", doctor_id |-> "D2", appointment_id |-> 9]>>
  /\ notifications =
       <<Notification("UD1", "New Appointment Request", 1),
         Notification("UD2", "New Appointment Request", 2)>>

\* the collections after three lab test requests were created: two for
\* hospital H1 and one for hospital H2
InitLab ==
  /\ ConsultedBooking
  /\ prescriptions = <<>>
  /\ pharmacyRequests = <<>>
  /\ insurances = InsuranceDocs
  /\ payments = <<>>
  /\ labRequests =
       <<[_id |-> 1, patient_id |-> "P1", doctor_id |-> "D1", status |-> "pending",
          hospital_id |-> "H1", consultation_id |-> 1, lab_test_template_id |-> "T1"],
         [_id |-> 2, patient_id |-> "P2", doctor_id |-> "D2", status |-> "pending",
          hospital_id |-> "H2", consultation_id |-> 2, lab_test_template_id |-> "T1"],
         [_id |-> 3, patient_id |-> "P2", doctor_id |-> "D1", status |-> "in_progress",
          hospital_id |-> "H1", consultation_id |-> 3, lab_test_template_id |-> "T1"]>>
  /\ labResults = <<>>
  /\ profiles = <<>>
  /\ medications = <<>>
  /\ req = [r \in Slots |-> Idle]

\* request 9 does not exist; "unclear" is outside the enum; 0 is an absent id
ResultBodies ==
  {[lab_test_request_id |-> id, result_status |-> st, result_data |-> "12 mg/dl",
    completed_at |-> NoVal] :
     id \in {0, 1, 2, 9}, st \in {"positive", "unclear"}}

\* results of request 1 that carry their own completed_at: a day of 2030,
\* and a string that is no date
DatedBodies ==
  {[lab_test_request_id |-> 1, result_status |-> "positive",
    result_data |-> "12 mg/dl", completed_at |-> at] : at \in {"2030-01-01", "someday"}}

RecordedBodies ==
  {b \in ResultBodies :
     /\ b.lab_test_request_id # 0
     /\ b.result_status = "positive" \/ b.lab_test_request_id = 1}

NextLabResults ==
  \/ \E r \in Slots, body \in RecordedBodies :
       LabResultsFit /\ LabResultNew(r, "L1", body)
  \/ \E r \in Slots : LabResultSave(r)
  \/ \E r \in Slots : LabResultPopulate(r)
  \/ \E r \in Slots : LabResultComplete(r)

SpecLabResults == InitLab /\ [][NextLabResults]_vars

DoneResult(r) == req[r].pc = "done" /\ req[r].op = "recordResult"

ResultsOf(requestId) ==
  {i \in 1..Len(labResults) : labResults[i].lab_test_request_id = requestId}

\* C19: a result-recording call that succeeds has stored its result and
\* leaves the request completed; no request ever has two results, so of two
\* calls for the same request only one succeeds.
C19_OneResultPerRequest ==
  /\ \A i \in 1..Len(labResults) :
       Cardinality(ResultsOf(labResults[i].lab_test_request_id)) = 1
  /\ \A r \in Slots :
       (DoneResult(r) /\ req[r].code = 201)
         => /\ labRequests[req[r].body.lab_test_request_id].status = "completed"
            /\ ResultsOf(req[r].body.lab_test_request_id) = {req[r].id}
  /\ \A r1, r2 \in Slots :
       (r1 # r2 /\ DoneResult(r1) /\ DoneResult(r2)
          /\ req[r1].body.lab_test_request_id = req[r2].body.lab_test_request_id)
         => ~(req[r1].code = 201 /\ req[r2].code = 201)

\* two calls for request 1: one recorded the result, the other was refused
C19_Witness ==
  /\ DoneResult(1) /\ req[1].code = 201 /\ req[1].body.lab_test_request_id = 1
  /\ DoneResult(2) /\ req[2].code = 500 /\ req[2].body.lab_test_request_id = 1
  /\ req[2].body.result_status = "positive"
  /\ Cardinality(ResultsOf(1)) = 1
  /\ labRequests[1].status = "completed"

----------------------------------------------------------------------------
(* GET /api/appointments and GET /api/lab-tests/results *)

\* a doctor role whose user has no Doctor document
DoctorWithoutProfile(caller) ==
  Role(caller) = "doctor" /\ DoctorFindOneByUser(caller) = NoDoctor

\* the appointment_time strings in the order the sort compares strings: all
\* are HH:MM:SS, so the order of the characters is the order of the times
TimeOrder == AllSlots \o <<"18:00:00">>

TimeRank(time) == CHOOSE i \in 1..Len(TimeOrder) : TimeOrder[i] = time

\* the sort key { appointment_date: 1, appointment_time: 1 }: a comes before b
SortsBefore(a, b) ==
  \/ a.appointment_date < b.appointment_date
  \/ /\ a.appointment_date = b.appointment_date
     /\ TimeRank(a.appointment_time) < TimeRank(b.appointment_time)

\* a document put into a sorted list, after the documents that do not sort
\* after it
InsertSorted(sorted, a) ==
  LET k == Cardinality({i \in 1..Len(sorted) : ~SortsBefore(a, sorted[i])})
  IN  SubSeq(sorted, 1, k) \o <<a>> \o SubSeq(sorted, k + 1, Len(sorted))

RECURSIVE SortByDateTime(_)
\* .sort({ appointment_date: 1, appointment_time: 1 }): ascending by date,
\* then by time; documents of one date and time stay in collection order
SortByDateTime(seq) ==
  IF seq = <<>> THEN <<>>
  ELSE InsertSorted(SortByDateTime(SubSeq(seq, 1, Len(seq) - 1)), seq[Len(seq)])

\* Appointment.find(query).sort(...) for the caller's role; a doctor without a
\* Doctor document is answered [] before the find
ApptList(r, caller) ==
  /\ Free(r)
  /\ req' = [req EXCEPT ![r] =
               [Idle EXCEPT
                  !.pc = "done", !.op = "listAppointments", !.caller = caller,
                  !.code = 200,
                  !.out = IF DoctorWithoutProfile(caller)
                            THEN <<>>
                            ELSE SortByDateTime(
                                   SelectSeq(appointments,
                                             LAMBDA a : RoleFilter(caller, a)))]]
  /\ UNCHANGED <<bookingVars, dispensingVars, labVars, registryVars>>

\* LabTestRequest.find({ patient_id }) or ({ doctor_id }).select('_id')
RequestIdsOf(caller) ==
  {i \in 1..Len(labRequests) : RoleFilter(caller, labRequests[i])}

\* query.lab_test_request_id is set for a patient and for a doctor who has a
\* Doctor document
ResultsScoped(caller) ==
  Role(caller) = "patient" \/ (Role(caller) = "doctor" /\ ~DoctorWithoutProfile(caller))

\* the first find of GET /results; the other roles go straight to the
\* results
LabResultListBegin(r, caller) ==
  /\ Free(r)
  /\ req' = [req EXCEPT ![r] =
               [Idle EXCEPT
                  !.pc = "findResults", !.op = "listLabResults", !.caller = caller,
                  !.body = [ids |-> IF ResultsScoped(caller) THEN RequestIdsOf(caller) ELSE {},
                            scoped |-> ResultsScoped(caller)]]]
  /\ UNCHANGED <<bookingVars, dispensingVars, labVars, registryVars>>

\* the orders a list of documents can be returned in
Orders(seq) ==
  {[i \in 1..Len(seq) |-> seq[p[i]]] :
     p \in {q \in [1..Len(seq) -> 1..Len(seq)] :
              \A i, j \in 1..Len(seq) : i # j => q[i] # q[j]}}

\* .sort({ completed_at: -1 }): descending by the stored completed_at;
\* results of one instant come in any order
NewestFirst(seq) ==
  {o \in Orders(seq) :
     \A i \in 1..(Len(o) - 1) : o[i].completed_at >= o[i + 1].completed_at}

\* LabTestResult.find(query).sort({ completed_at: -1 })
LabResultListFind(r) ==
  /\ req[r].pc = "findResults"
  /\ req[r].op = "listLabResults"
  /\ \E out \in NewestFirst(SelectSeq(labResults,
                    LAMBDA x : req[r].body.scoped
                                 => x.lab_test_request_id \in req[r].body.ids)) :
       req' = [req EXCEPT ![r] = [req[r] EXCEPT !.pc = "done", !.code = 200,
                                                !.out = out]]
  /\ UNCHANGED <<bookingVars, dispensingVars, labVars, registryVars>>

----------------------------------------------------------------------------
(* Listing the lab requests while results are recorded *)

NextLabList ==
  \/ \E caller \in Profiles, hospitalId \in {NoVal, "H1", "H2"} :
       LabRequestList(1, caller, hospitalId)
  \/ \E caller \in Profiles : ApptList(1, caller)
  \/ \E caller \in Profiles : LabResultListBegin(1, caller)
  \/ LabResultListFind(1)
  \/ \E body \in {b \in ResultBodies : b.lab_test_request_id \in {0, 1, 2}
                                        /\ b.result_status = "positive"}
                    \cup DatedBodies :
       LabResultsFit /\ LabResultNew(1, "L1", body)
  \/ LabResultSave(1)
  \/ LabResultPopulate(1)
  \/ LabResultComplete(1)

SpecLabList == InitLab /\ [][NextLabList]_vars

DoneList(r) == req[r].pc = "done" /\ req[r].op = "listLabRequests"

\* C20: whatever the hospitalId parameter, a list call of a lab technician
\* returns only requests of hospitals whose lab_user_id is the caller, and the
\* empty list when there is no such hospital.
C20_TechnicianSeesOwnHospitals ==
  \A r \in Slots :
    (DoneList(r) /\ Role(req[r].caller) = "lab_technician")
      => /\ req[r].code = 200
         /\ \A i \in 1..Len(req[r].out) :
              \E h \in HospitalDocs :
                h.lab_user_id = req[r].caller /\ h._id = req[r].out[i].hospital_id
         /\ (\A h \in HospitalDocs : h.lab_user_id # req[r].caller) => req[r].out = <<>>

\* the patient and the doctor of a listed record: those of the request for a
\* lab test result
ListedOwner(op, record) ==
  IF op = "listLabResults" THEN labRequests[record.lab_test_request_id] ELSE record

\* C22: a list of appointments, lab test requests or lab test results holds,
\* for a patient, only records of that patient; for a doctor, only records of
\* the caller's Doctor document; and nothing for a doctor without one.
C22_ListsScopedByRole ==
  \A r \in Slots :
    (req[r].pc = "done"
       /\ req[r].op \in {"listAppointments", "listLabRequests", "listLabResults"})
      => /\ Role(req[r].caller) = "patient"
              => \A i \in 1..Len(req[r].out) :
                   ListedOwner(req[r].op, req[r].out[i]).patient_id = req[r].caller
         /\ Role(req[r].caller) = "doctor"
              => IF DoctorWithoutProfile(req[r].caller)
                   THEN req[r].out = <<>>
                   ELSE \A i \in 1..Len(req[r].out) :
                          ListedOwner(req[r].op, req[r].out[i]).doctor_id
                            = DoctorFindOneByUser(req[r].caller)._id

----------------------------------------------------------------------------
(* POST /api/lab-tests/requests *)

MaxLabRequests == 1

\* Consultation.findById(id): the document, or EmptyConsultation for null
ConsultationFindById(id) ==
  IF id \in 1..Len(consultations) THEN consultations[id] ELSE EmptyConsultation

\* an appointment reference that is left as stored
ConsultationAppointmentUnpopulated(appointmentId) == EmptyDoc

\* populate('appointment_id'): the appointment the reference read from the
\* consultation names now, or EmptyDoc for null
ConsultationAppointment(appointmentId) == AppointmentFindById(appointmentId)

\* new LabTestRequest(body): the body's paths and the schema default of status
NewLabRequest(body, hospital) ==
  [_id |-> 0, patient_id |-> body.patient_id, doctor_id |-> body.doctor_id,
   status |-> IF body.status = NoVal THEN "awaiting_payment" ELSE body.status,
   hospital_id |-> hospital, consultation_id |-> body.consultation_id,
   lab_test_template_id |-> body.lab_test_template_id]

\* request.save() validation: required paths and the enum
LabRequestValid(doc) ==
  /\ doc.consultation_id # 0
  /\ doc.patient_id # NoVal
  /\ doc.doctor_id # NoVal
  /\ doc.lab_test_template_id # NoVal
  /\ doc.status \in LabRequestStatusEnum

LabRequestsFit == Len(labRequests) < MaxLabRequests

LabReqStep(r, pc, doc) == req' = [req EXCEPT ![r] = [req[r] EXCEPT !.pc = pc, !.doc = doc]]

\* let body = { ...req.body }; if (!body.hospital_id && body.consultation_id)
LabReqCreateBegin(r, caller, body) ==
  /\ Free(r)
  /\ req' = [req EXCEPT ![r] =
               [Idle EXCEPT !.pc = IF ~Truthy(body.hospital_id) /\ body.consultation_id # 0
                                     THEN "findConsultation" ELSE "saveRequest",
                            !.op = "createLabRequest", !.caller = caller,
                            !.doc = NewLabRequest(body, body.hospital_id), !.body = body]]
  /\ UNCHANGED <<bookingVars, dispensingVars, labVars, registryVars>>

\* else if (body.appointment_id): the fallback when the chain gave nothing
LabReqFallback(r) ==
  IF req[r].body.appointment_id # 0
    THEN req' = [req EXCEPT ![r] = [req[r] EXCEPT !.pc = "findAppointment", !.id = 0]]
    ELSE req' = [req EXCEPT ![r] = [req[r] EXCEPT !.pc = "saveRequest", !.id = 0]]

\* Consultation.findById(body.consultation_id): the query itself; the
\* appointment reference it read is kept for the populate that follows
LabReqFindConsultation(r) ==
  /\ req[r].pc = "findConsultation"
  /\ req[r].op = "createLabRequest"
  /\ LET consultation == ConsultationFindById(req[r].body.consultation_id)
     IN  IF consultation # EmptyConsultation /\ consultation.appointment_id # 0
           THEN req' = [req EXCEPT ![r] =
                          [req[r] EXCEPT !.pc = "populateAppointment",
                                         !.id = consultation.appointment_id]]
           ELSE LabReqFallback(r)
  /\ UNCHANGED <<bookingVars, dispensingVars, labVars, registryVars>>

\* .populate('appointment_id'), a second read; if (consultation &&
\* consultation.appointment_id) body.hospital_id = its hospital_id
LabReqPopulateAppointment(r) ==
  /\ req[r].pc = "populateAppointment"
  /\ req[r].op = "createLabRequest"
  /\ LET appointment == ConsultationAppointment(req[r].id)
     IN  IF appointment # EmptyDoc
           THEN req' = [req EXCEPT ![r] =
                          [req[r] EXCEPT !.pc = "saveRequest", !.id = 0,
                                         !.doc.hospital_id = appointment.hospital_id]]
           ELSE LabReqFallback(r)
  /\ UNCHANGED <<bookingVars, dispensingVars, labVars, registryVars>>

\* Appointment.findById(body.appointment_id); if (appt) body.hospital_id = ...
LabReqFindAppointment(r) ==
  /\ req[r].pc = "findAppointment"
  /\ req[r].op = "createLabRequest"
  /\ LET appt == AppointmentFindById(req[r].body.appointment_id)
     IN  IF appt # EmptyDoc
           THEN LabReqStep(r, "saveRequest",
                           [req[r].doc EXCEPT !.hospital_id = appt.hospital_id])
           ELSE LabReqStep(r, "saveRequest", req[r].doc)
  /\ UNCHANGED <<bookingVars, dispensingVars, labVars, registryVars>>

\* request.save(), the populates, 201; a validation error is answered 500
LabReqSave(r) ==
  /\ req[r].pc = "saveRequest"
  /\ req[r].op = "createLabRequest"
  /\ IF ~LabRequestValid(req[r].doc)
       THEN /\ Respond(r, "createLabRequest", req[r].caller, 0, req[r].doc, req[r].body,
                       500, "ValidationError")
            /\ UNCHANGED labRequests
       ELSE LET request == [req[r].doc EXCEPT !._id = Len(labRequests) + 1]
            IN  /\ labRequests' = Append(labRequests, request)
                /\ Respond(r, "createLabRequest", req[r].caller, request._id, request,
                           req[r].body, 201, NoVal)
  /\ UNCHANGED <<bookingVars, dispensingVars, registryVars, labResults>>

\* two consultations and no lab test request yet
InitConsulted ==
  /\ ConsultedBooking
  /\ prescriptions = <<>>
  /\ pharmacyRequests = <<>>
  /\ insurances = InsuranceDocs
  /\ payments = <<>>
  /\ labRequests = <<>>
  /\ labResults = <<>>
  /\ profiles = <<>>
  /\ medications = <<>>
  /\ req = [r \in Slots |-> Idle]

\* consultation 9 and appointment 9 do not exist; hospital H7 is supplied by
\* the caller
LabRequestBodies ==
  {[patient_id |-> "P1", doctor_id |-> "D1", status |-> NoVal, hospital_id |-> h,
    appointment_id |-> a, consultation_id |-> c, lab_test_template_id |-> t] :
     h \in {NoVal, "H7"}, c \in {0, 1, 2, 9}, a \in {0, 2, 9}, t \in {"T1"}}
    \cup {[patient_id |-> "P1", doctor_id |-> "D1", status |-> NoVal,
           hospital_id |-> NoVal, appointment_id |-> 0, consultation_id |-> 1,
           lab_test_template_id |-> NoVal]}

\* a PUT that moves appointment 1 to hospital H7 and one that moves
\* consultation 1 to appointment 2
HospitalUpdates == {[EmptyBody EXCEPT !.hospital_id = "H7"]}

AppointmentMoves == ConsultationBodies({2}, {NoVal}, {NoVal})

\* lab test requests and the updates, one request at a time
NextLabRequest ==
  \/ \E caller \in {"UD1", "P1"}, body \in LabRequestBodies :
       LabRequestsFit /\ LabReqCreateBegin(1, caller, body)
  \/ LabReqFindConsultation(1)
  \/ LabReqPopulateAppointment(1)
  \/ LabReqFindAppointment(1)
  \/ LabReqSave(1)
  \/ \E body \in HospitalUpdates : ApptUpdateFind(1, "P1", 1, body)
  \/ ApptUpdateWrite(1)
  \/ \E body \in AppointmentMoves : ConsUpdateFind(1, "P1", 1, body)
  \/ ConsUpdateWrite(1)

SpecLabRequest == InitConsulted /\ [][NextLabRequest]_vars

\* one lab test request that derives its hospital while the updates run on
\* the other connection
NextLabRequestRace ==
  \/ \E body \in {b \in LabRequestBodies : b.hospital_id = NoVal /\ b.consultation_id = 1} :
       LabRequestsFit /\ LabReqCreateBegin(1, "UD1", body)
  \/ LabReqFindConsultation(1)
  \/ LabReqPopulateAppointment(1)
  \/ LabReqFindAppointment(1)
  \/ LabReqSave(1)
  \/ \E body \in HospitalUpdates : ApptUpdateFind(2, "P1", 1, body)
  \/ ApptUpdateWrite(2)
  \/ \E body \in AppointmentMoves : ConsUpdateFind(2, "P1", 1, body)
  \/ ConsUpdateWrite(2)

SpecLabRequestRace == InitConsulted /\ [][NextLabRequestRace]_vars

DoneLabRequest(r) == req[r].pc = "done" /\ req[r].op = "createLabRequest"

\* the request read consultation 1 while it named appointment 1; the
\* consultation then moved to appointment 2 and appointment 1 to hospital H7,
\* which the populate read and the request stored
ReadSkew ==
  /\ DoneLabRequest(1) /\ req[1].code = 201
  /\ consultations[1].appointment_id = 2
  /\ appointments[2].hospital_id = "H2"
  /\ labRequests[req[1].id].hospital_id = "H7"

\* the consultation and its appointment both exist
ChainResolves(consultationId) ==
  /\ consultationId \in 1..Len(consultations)
  /\ consultations[consultationId].appointment_id \in 1..Len(appointments)

\* C21: a created lab test request stores the hospital_id the caller supplied;
\* when none was supplied it stores the hospital of the appointment of the
\* named consultation if both exist, otherwise the hospital of the appointment
\* named by appointment_id if it exists, otherwise none.
C21_HospitalDerivation ==
  \A r \in Slots :
    (DoneLabRequest(r) /\ req[r].code = 201)
      => LET body == req[r].body
             stored == labRequests[req[r].id].hospital_id
         IN  IF body.hospital_id # NoVal
               THEN stored = body.hospital_id
               ELSE IF ChainResolves(body.consultation_id)
                 THEN stored =
                        appointments[consultations[body.consultation_id].appointment_id]
                          .hospital_id
                 ELSE IF body.appointment_id \in 1..Len(appointments)
                   THEN stored = appointments[body.appointment_id].hospital_id
                   ELSE stored = NoVal

\* a request was created through the fallback: the consultation names no
\* existing appointment and appointment 2 supplied the hospital
C21_Witness ==
  /\ DoneLabRequest(1) /\ req[1].code = 201
  /\ req[1].body.hospital_id = NoVal
  /\ req[1].body.consultation_id = 2
  /\ req[1].body.appointment_id = 2
  /\ labRequests[req[1].id].hospital_id = "H2"

----------------------------------------------------------------------------
(* PUT /api/notifications/:id/read and PUT /api/notifications/read/all *)

NoNotification == Notification(NoVal, NoVal, 0)

\* Notification.findById(id): the document, or NoNotification for null
NotificationFindById(id) ==
  IF id \in 1..Len(notifications) THEN notifications[id] ELSE NoNotification

\* a check that lets every caller through
MayMarkReadAnyone(caller, notification) == TRUE

\* notification.user_id.toString() !== req.user._id.toString() is refused
MayMarkRead(caller, notification) == notification.user_id = caller

\* findById, 404 for none, 403 for a notification of another user
NotifReadFind(r, caller, id) ==
  /\ Free(r)
  /\ LET notification == NotificationFindById(id)
     IN  IF notification = NoNotification
           THEN Respond(r, "markRead", caller, id, EmptyDoc, EmptyBody, 404,
                        "Notification not found")
           ELSE IF ~MayMarkRead(caller, notification)
             THEN Respond(r, "markRead", caller, id, EmptyDoc, EmptyBody, 403,
                          "Access denied")
             ELSE req' = [req EXCEPT ![r] =
                            [Idle EXCEPT !.pc = "saveRead", !.op = "markRead",
                                         !.caller = caller, !.id = id]]
  /\ UNCHANGED <<bookingVars, dispensingVars, labVars, registryVars>>

\* notification.is_read = true; notification.save(); 200
NotifReadSave(r) ==
  /\ req[r].pc = "saveRead"
  /\ req[r].op = "markRead"
  /\ notifications' = [notifications EXCEPT ![req[r].id].is_read = TRUE]
  /\ Respond(r, "markRead", req[r].caller, req[r].id, EmptyDoc, EmptyBody, 200, NoVal)
  /\ UNCHANGED <<appointments, consultations, dispensingVars, labVars, registryVars>>

\* Notification.updateMany({ user_id, is_read: false }, { is_read: true })
NotifReadAll(r, caller) ==
  /\ Free(r)
  /\ notifications' =
       [i \in 1..Len(notifications) |->
          IF notifications[i].user_id = caller
            THEN [notifications[i] EXCEPT !.is_read = TRUE]
            ELSE notifications[i]]
  /\ Respond(r, "markAllRead", caller, 0, EmptyDoc, EmptyBody, 200, NoVal)
  /\ UNCHANGED <<appointments, consultations, dispensingVars, labVars, registryVars>>

\* the required paths title, message and type of the schema; user_id is
\* always set by the handler
NotificationValid(body) ==
  /\ body.title \notin {NoVal, ""}
  /\ body.message \notin {NoVal, ""}
  /\ body.type \notin {NoVal, ""}

\* new Notification({ ...req.body, user_id: req.body.user_id || req.user._id })
NewNotification(caller, body) ==
  [user_id |-> IF Truthy(body.user_id) THEN body.user_id ELSE caller,
   title |-> body.title, reference_id |-> body.reference_id,
   is_read |-> body.is_read = "true"]

\* POST /api/notifications: notification.save(), 201; catch 500
NotifCreate(r, caller, body) ==
  /\ Free(r)
  /\ IF ~NotificationValid(body)
       THEN /\ Respond(r, "createNotification", caller, 0, EmptyDoc, body, 500,
                       "ValidationError")
            /\ UNCHANGED notifications
       ELSE /\ notifications' = Append(notifications, NewNotification(caller, body))
            /\ Respond(r, "createNotification", caller, Len(notifications) + 1,
                       EmptyDoc, body, 201, NoVal)
  /\ UNCHANGED <<appointments, consultations, dispensingVars, labVars, registryVars>>

\* a read notification for another user, an unread one for the caller, a
\* body without message
NotificationBodies ==
  {[user_id |-> "UD1", title |-> "x", reference_id |-> 0, is_read |-> "true",
    message |-> "m", type |-> "info"],
   [user_id |-> NoVal, title |-> "x", reference_id |-> 0, is_read |-> NoVal,
    message |-> "m", type |-> "info"],
   [user_id |-> "UD2", title |-> "x", reference_id |-> 0, is_read |-> NoVal,
    message |-> NoVal, type |-> "info"]}

NextNotify ==
  \/ \E r \in Slots, caller \in {"UD1", "UD2", "P1"}, id \in {1, 2, 9} :
       NotifReadFind(r, caller, id)
  \/ \E r \in Slots : NotifReadSave(r)
  \/ \E r \in Slots, caller \in {"UD1", "UD2", "P1"} : NotifReadAll(r, caller)
  \/ \E body \in NotificationBodies :
       NotificationsFit /\ NotifCreate(1, "P1", body)

SpecNotify == InitBooked /\ [][NextNotify]_vars

DoneMark(r) == req[r].pc = "done" /\ req[r].op = "markRead"

\* a request of user u takes a step: its record changes, or it is a
\* mark-all-as-read answered exactly as the one before it on the connection
Acts(u) ==
  \E r \in Slots :
    /\ req'[r].caller = u
    /\ \/ req'[r] # req[r] /\ req'[r].op \in {"markRead", "markAllRead"}
       \/ req' = req /\ req[r].pc = "done" /\ req[r].op = "markAllRead"

\* C23: is_read of a stored notification changes only in a step of a
\* mark-as-read or mark-all-as-read request of the notification's own user;
\* marking another user's notification is answered 403; when mark-all-as-read
\* is answered every notification of the caller is read.
C23_ReadMarksOwnOnly ==
  /\ [][\A i \in 1..Len(notifications) :
          notifications'[i].is_read # notifications[i].is_read
            => Acts(notifications[i].user_id)]_vars
  /\ [](\A r \in Slots :
          (DoneMark(r) /\ req[r].id \in 1..Len(notifications)
             /\ notifications[req[r].id].user_id # req[r].caller)
            => req[r].code = 403)
  /\ [][\A r \in Slots :
          Answered(r, "markAllRead")
            => \A i \in 1..Len(notifications') :
                 notifications'[i].user_id = req'[r].caller
                   => notifications'[i].is_read]_vars

\* UD2 was refused on the notification of UD1 and then marked all of their
\* own read: notification 1 is still unread
C23_Witness ==
  /\ DoneMark(1) /\ req[1].caller = "UD2" /\ req[1].id = 1 /\ req[1].code = 403
  /\ req[2].pc = "done" /\ req[2].op = "markAllRead" /\ req[2].caller = "UD2"
  /\ ~notifications[1].is_read
  /\ notifications[2].is_read

----------------------------------------------------------------------------
(* POST /api/auth/register *)

MaxProfiles == 2

\* the emails of the requests, each with its lowercase: true, trim: true form
EmailForms ==
  {<<"a@x.io", "a@x.io">>, <<" A@X.io ", "a@x.io">>, <<"b@x.io", "b@x.io">>}

\* the setters of profileSchema.email, run on documents and on query filters
LowerTrim(email) ==
  IF \E f \in EmailForms : f[1] = email
    THEN (CHOOSE f \in EmailForms : f[1] = email)[2]
    ELSE email

\* the place a deleted profile leaves in the collection: no document
NoProfile ==
  [_id |-> 0, email |-> NoVal, role |-> NoVal, national_id |-> NoVal,
   full_name |-> NoVal]

\* Profile.findOne({ email }): a stored profile has the email; a filter
\* without email matches none, and neither does the place of a deleted one
ProfileTaken(email) ==
  \E i \in 1..Len(profiles) :
    profiles[i] # NoProfile /\ email # NoVal /\ profiles[i].email = LowerTrim(email)

\* new Profile({ email, password: hashedPassword, full_name, role, ... })
NewProfile(body) ==
  [_id |-> 0, email |-> LowerTrim(body.email), role |-> body.role,
   national_id |-> body.national_id, full_name |-> body.full_name]

\* user.save() validation: the required paths email, full_name and role (the
\* password is the hash, present whenever the handler got this far), and the
\* role enum
ProfileValid(doc) ==
  /\ doc.email \notin {NoVal, ""}
  /\ doc.full_name \notin {NoVal, ""}
  /\ doc.role \in RoleEnum

\* unique index on email, unique sparse index on national_id
ProfileIndexFree(coll, doc) ==
  \A i \in 1..Len(coll) :
    /\ coll[i].email # doc.email
    /\ doc.national_id # NoVal => coll[i].national_id # doc.national_id

ProfilesFit == Len(profiles) < MaxProfiles

\* Profile.findOne({ email }): 400 when a profile has the email
RegisterFind(r, body) ==
  /\ Free(r)
  /\ IF ProfileTaken(body.email)
       THEN Respond(r, "register", NoVal, 0, EmptyDoc, body, 400, "User already exists")
       ELSE req' = [req EXCEPT ![r] =
                      [Idle EXCEPT !.pc = "saveUser", !.op = "register", !.body = body]]
  /\ UNCHANGED <<bookingVars, dispensingVars, labVars, registryVars>>

\* bcrypt.hash(password), user.save(), 201; every exception is answered 500
RegisterSave(r) ==
  /\ req[r].pc = "saveUser"
  /\ req[r].op = "register"
  /\ LET body == req[r].body
         user == [NewProfile(body) EXCEPT !._id = Len(profiles) + 1]
     IN  IF body.password = NoVal
           THEN /\ Respond(r, "register", NoVal, 0, EmptyDoc, body, 500,
                           "Illegal arguments")
                /\ UNCHANGED profiles
           ELSE IF ~ProfileValid(user)
             THEN /\ Respond(r, "register", NoVal, 0, EmptyDoc, body, 500,
                             "ValidationError")
                  /\ UNCHANGED profiles
             ELSE IF ~ProfileIndexFree(profiles, user)
               THEN /\ Respond(r, "register", NoVal, 0, EmptyDoc, body, 500,
                               "E11000 duplicate key error")
                    /\ UNCHANGED profiles
               ELSE /\ profiles' = Append(profiles, user)
                    /\ Respond(r, "register", NoVal, user._id, EmptyDoc, body, 201,
                               NoVal)
  /\ UNCHANGED <<bookingVars, dispensingVars, labVars, medications>>

\* the profile with this _id, NoProfile for null
ProfileFindById(id) ==
  IF id \in 1..Len(profiles) THEN profiles[id] ELSE NoProfile

\* the paths of the body over the stored ones, email through its setters
ApplyProfileUpdate(profile, body) ==
  [_id |-> profile._id,
   email |-> IF body.email = NoVal THEN profile.email ELSE LowerTrim(body.email),
   role |-> IF body.role = NoVal THEN profile.role ELSE body.role,
   national_id |-> IF body.national_id = NoVal THEN profile.national_id
                   ELSE body.national_id,
   full_name |-> IF body.full_name = NoVal THEN profile.full_name
                 ELSE body.full_name]

\* runValidators: the validators of the paths the update sets
ProfileUpdateValid(body) ==
  /\ body.email # NoVal => LowerTrim(body.email) # ""
  /\ body.full_name # ""
  /\ body.role # NoVal => body.role \in RoleEnum

\* authenticate, for a request that carries the token of a stored profile:
\* req.user is the caller's profile as it is read now
Authenticate(r, op, caller, id, body) ==
  /\ Free(r)
  /\ ProfileFindById(caller) # NoProfile
  /\ req' = [req EXCEPT ![r] =
               [Idle EXCEPT !.pc = "authenticated", !.op = op, !.caller = caller,
                            !.id = id, !.body = body, !.doc = ProfileFindById(caller)]]
  /\ UNCHANGED <<bookingVars, dispensingVars, labVars, registryVars>>

\* PUT /api/profiles/:id: 403 unless req.user is an admin or the profile's
\* owner, then Profile.findByIdAndUpdate(id, req.body, { runValidators })
ProfileUpdate(r) ==
  /\ req[r].pc = "authenticated"
  /\ req[r].op = "updateProfile"
  /\ LET caller == req[r].caller
         id == req[r].id
         body == req[r].body
         profile == ProfileFindById(id)
         updated == ApplyProfileUpdate(profile, body)
         others == [profiles EXCEPT ![id] = NoProfile]
     IN  IF req[r].doc.role # "admin" /\ caller # id
           THEN /\ Respond(r, "updateProfile", caller, id, EmptyDoc, body, 403,
                           "Access denied")
                /\ UNCHANGED profiles
           ELSE IF ~ProfileUpdateValid(body)
             THEN /\ Respond(r, "updateProfile", caller, id, EmptyDoc, body, 500,
                             "ValidationError")
                  /\ UNCHANGED profiles
             ELSE IF profile = NoProfile
               THEN /\ Respond(r, "updateProfile", caller, id, EmptyDoc, body, 404,
                               "Profile not found")
                    /\ UNCHANGED profiles
               ELSE IF ~ProfileIndexFree(others, updated)
                 THEN /\ Respond(r, "updateProfile", caller, id, EmptyDoc, body, 500,
                                 "E11000 duplicate key error")
                      /\ UNCHANGED profiles
                 ELSE /\ profiles' = [profiles EXCEPT ![id] = updated]
                      /\ Respond(r, "updateProfile", caller, id, EmptyDoc, body, 200,
                                 NoVal)
  /\ UNCHANGED <<bookingVars, dispensingVars, labVars, medications>>

\* DELETE /api/profiles/:id behind authorize('admin') on req.user:
\* Profile.findByIdAndDelete(id), 404 for null
ProfileDelete(r) ==
  /\ req[r].pc = "authenticated"
  /\ req[r].op = "deleteProfile"
  /\ LET caller == req[r].caller
         id == req[r].id
     IN  IF req[r].doc.role \notin {"admin"}
           THEN /\ Respond(r, "deleteProfile", caller, id, EmptyDoc, EmptyBody, 403,
                           "Access denied")
                /\ UNCHANGED profiles
           ELSE IF ProfileFindById(id) = NoProfile
             THEN /\ Respond(r, "deleteProfile", caller, id, EmptyDoc, EmptyBody, 404,
                             "Profile not found")
                  /\ UNCHANGED profiles
             ELSE /\ profiles' = [profiles EXCEPT ![id] = NoProfile]
                  /\ Respond(r, "deleteProfile", caller, id, EmptyDoc, EmptyBody, 200,
                             NoVal)
  /\ UNCHANGED <<bookingVars, dispensingVars, labVars, medications>>

\* two spellings of one email, a national_id used twice, a role outside the
\* enum, a missing password, a missing full_name, a missing email
RegisterBodies ==
  {[email |-> "a@x.io", role |-> "patient", national_id |-> NoVal,
    full_name |-> "Ann", password |-> "secret"],
   [email |-> " A@X.io ", role |-> "patient", national_id |-> "NID1",
    full_name |-> "Ann", password |-> "secret"],
   [email |-> "b@x.io", role |-> "admin", national_id |-> "NID1",
    full_name |-> "Bob", password |-> "secret"],
   [email |-> "b@x.io", role |-> "janitor", national_id |-> NoVal,
    full_name |-> "Bob", password |-> "secret"],
   [email |-> "b@x.io", role |-> "patient", national_id |-> NoVal,
    full_name |-> "Bob", password |-> NoVal],
   [email |-> "b@x.io", role |-> "patient", national_id |-> NoVal,
    full_name |-> NoVal, password |-> "secret"],
   [email |-> NoVal, role |-> "patient", national_id |-> NoVal,
    full_name |-> "Cy", password |-> "secret"]}

ProfileUpdates ==
  {[email |-> " A@X.io ", role |-> NoVal, national_id |-> NoVal, full_name |-> NoVal],
   [email |-> NoVal, role |-> "admin", national_id |-> NoVal, full_name |-> NoVal],
   [email |-> NoVal, role |-> "patient", national_id |-> NoVal, full_name |-> NoVal],
   [email |-> NoVal, role |-> "janitor", national_id |-> NoVal, full_name |-> NoVal]}

NextRegister ==
  \/ \E r \in Slots, body \in RegisterBodies : ProfilesFit /\ RegisterFind(r, body)
  \/ \E r \in Slots : RegisterSave(r)
  \/ \E r \in Slots, caller, id \in 1..MaxProfiles, body \in ProfileUpdates :
       Authenticate(r, "updateProfile", caller, id, body)
  \/ \E r \in Slots : ProfileUpdate(r)
  \/ \E caller, id \in 1..MaxProfiles :
       Authenticate(1, "deleteProfile", caller, id, EmptyBody)
  \/ ProfileDelete(1)

SpecRegister == Init /\ [][NextRegister]_vars

\* C24: no two profiles share an email, and a registration that is answered
\* while a profile already has its email (lowercased and trimmed) is answered
\* 400 "User already exists" and creates no profile.
C24_DuplicateEmailRefused ==
  /\ [](\A i, j \in 1..Len(profiles) :
          (i # j /\ profiles[i] # NoProfile /\ profiles[j] # NoProfile)
            => profiles[i].email # profiles[j].email)
  /\ [][\A r \in Slots :
          (Answered(r, "register") /\ ProfileTaken(req'[r].body.email))
            => /\ req'[r].code = 400
               /\ req'[r].err = "User already exists"
               /\ profiles' = profiles]_vars

----------------------------------------------------------------------------
(* POST /api/medications *)

MaxMedications == 2

\* the authorize(...roles) middleware: the role of the caller is one of roles
Authorize(roles, caller) == Role(caller) \in roles

\* authorize('admin', 'pharmacist', 'doctor')
MedicationCreators == {"admin", "pharmacist", "doctor"}

\* new Medication(req.body): the body's paths, unit_price with its default
NewMedication(body) ==
  [_id |-> 0, unit_price |-> OrZero(body.unit_price), name |-> body.name]

\* medication.save() validation: name required, unit_price a number
MedicationValid(body) ==
  /\ body.name \notin {NoVal, ""}
  /\ body.unit_price = NoVal \/ IsNumber(body.unit_price)

\* unique index on name
MedicationIndexFree(coll, doc) == \A i \in 1..Len(coll) : coll[i].name # doc.name

MedicationsFit == Len(medications) < MaxMedications

\* the role gate, then new Medication(req.body).save(), 201; catch 500
MedCreate(r, caller, body) ==
  /\ Free(r)
  /\ IF ~Authorize(MedicationCreators, caller)
       THEN /\ Respond(r, "createMedication", caller, 0, EmptyDoc, body, 403,
                       "Access denied")
            /\ UNCHANGED medications
       ELSE IF ~MedicationValid(body)
         THEN /\ Respond(r, "createMedication", caller, 0, EmptyDoc, body, 500,
                         "ValidationError")
              /\ UNCHANGED medications
         ELSE IF ~MedicationIndexFree(medications, NewMedication(body))
           THEN /\ Respond(r, "createMedication", caller, 0, EmptyDoc, body, 500,
                           "E11000 duplicate key error")
                /\ UNCHANGED medications
           ELSE /\ medications' =
                     Append(medications,
                            [NewMedication(body) EXCEPT !._id = Len(medications) + 1])
                /\ Respond(r, "createMedication", caller, Len(medications) + 1,
                           EmptyDoc, body, 201, NoVal)
  /\ UNCHANGED <<bookingVars, dispensingVars, labVars, profiles>>

\* authorize('admin', 'pharmacist') of the update and delete routes
MedicationKeepers == {"admin", "pharmacist"}

\* the place a deleted medication leaves in the collection: no document
NoMedication == [_id |-> 0, unit_price |-> 0, name |-> NoVal]

\* the medication with this _id, NoMedication for null
MedicationFindById(id) ==
  IF id \in 1..Len(medications) THEN medications[id] ELSE NoMedication

\* the paths of the body over the stored ones
ApplyMedicationUpdate(medication, body) ==
  [_id |-> medication._id,
   unit_price |-> IF body.unit_price = NoVal THEN medication.unit_price
                  ELSE ToNumber(body.unit_price),
   name |-> IF body.name = NoVal THEN medication.name ELSE body.name]

\* the cast and the validators of the paths the update sets
MedicationUpdateValid(body) ==
  /\ body.name # ""
  /\ body.unit_price = NoVal \/ IsNumber(body.unit_price)

\* PUT /api/medications/:id: the role gate, then
\* Medication.findByIdAndUpdate(id, req.body, { runValidators }), 404 for null
MedUpdate(r, caller, id, body) ==
  /\ Free(r)
  /\ LET medication == MedicationFindById(id)
         others == [medications EXCEPT ![id] = NoMedication]
     IN  IF ~Authorize(MedicationKeepers, caller)
           THEN /\ Respond(r, "updateMedication", caller, id, EmptyDoc, body, 403,
                           "Access denied")
                /\ UNCHANGED medications
           ELSE IF ~MedicationUpdateValid(body)
             THEN /\ Respond(r, "updateMedication", caller, id, EmptyDoc, body, 500,
                             "ValidationError")
                  /\ UNCHANGED medications
             ELSE IF medication = NoMedication
               THEN /\ Respond(r, "updateMedication", caller, id, EmptyDoc, body, 404,
                               "Medication not found")
                    /\ UNCHANGED medications
               ELSE IF ~MedicationIndexFree(others,
                                            ApplyMedicationUpdate(medication, body))
                 THEN /\ Respond(r, "updateMedication", caller, id, EmptyDoc, body,
                                 500, "E11000 duplicate key error")
                      /\ UNCHANGED medications
                 ELSE /\ medications' =
                           [medications EXCEPT
                              ![id] = ApplyMedicationUpdate(medication, body)]
                      /\ Respond(r, "updateMedication", caller, id, EmptyDoc, body,
                                 200, NoVal)
  /\ UNCHANGED <<bookingVars, dispensingVars, labVars, profiles>>

\* DELETE /api/medications/:id: the role gate, then
\* Medication.findByIdAndDelete(id), 404 for null
MedDelete(r, caller, id) ==
  /\ Free(r)
  /\ IF ~Authorize(MedicationKeepers, caller)
       THEN /\ Respond(r, "deleteMedication", caller, id, EmptyDoc, EmptyBody, 403,
                       "Access denied")
            /\ UNCHANGED medications
       ELSE IF MedicationFindById(id) = NoMedication
         THEN /\ Respond(r, "deleteMedication", caller, id, EmptyDoc, EmptyBody, 404,
                         "Medication not found")
              /\ UNCHANGED medications
         ELSE /\ medications' = [medications EXCEPT ![id] = NoMedication]
              /\ Respond(r, "deleteMedication", caller, id, EmptyDoc, EmptyBody, 200,
                         NoVal)
  /\ UNCHANGED <<bookingVars, dispensingVars, labVars, profiles>>

MedicationBodies ==
  {[unit_price |-> u, name |-> n] :
     n \in {"aspirin", "ibuprofen", NoVal}, u \in {"500", NoVal, "two"}}

MedicationUpdates ==
  {[unit_price |-> "700", name |-> NoVal], [unit_price |-> NoVal, name |-> "aspirin"],
   [unit_price |-> "two", name |-> NoVal]}

NextMedication ==
  \/ \E caller \in Profiles, body \in MedicationBodies :
       MedicationsFit /\ MedCreate(1, caller, body)
  \/ \E caller \in {"A1", "PH1", "UD1"}, id \in 1..MaxMedications,
        body \in MedicationUpdates : MedUpdate(1, caller, id, body)
  \/ \E caller \in {"A1", "PH1", "UD1"}, id \in 1..MaxMedications :
       MedDelete(1, caller, id)

SpecMedication == Init /\ [][NextMedication]_vars

\* C25: a medication is created only in a request of an admin or a
\* pharmacist; a caller of another role is answered 403 and nothing is
\* created.
C25_MedicationRoleGate ==
  /\ [][Len(medications') > Len(medications)
          => \E r \in Slots :
               /\ Answered(r, "createMedication")
               /\ Role(req'[r].caller) \in {"admin", "pharmacist"}]_vars
  /\ [](\A r \in Slots :
          (req[r].pc = "done" /\ req[r].op = "createMedication"
             /\ Role(req[r].caller) \notin {"admin", "pharmacist"})
            => req[r].code = 403)

----------------------------------------------------------------------------
(* Prescribing over a storage that may fail *)

\* prescription.save() rejects for a reason of the storage (connection lost,
\* write refused): the catch answers 500 and the documents saved by earlier
\* turns of the loop stay
PrescCreateFail(r) ==
  /\ req[r].pc = "save"
  /\ req[r].op = "createPrescriptions"
  /\ Respond(r, "createPrescriptions", req[r].caller, 0, EmptyDoc, req[r].body, 500,
             "storage error")
  /\ UNCHANGED <<bookingVars, dispensingVars, labVars, registryVars>>

NextPrescribeFaulty ==
  \/ NextPrescribe
  \/ PrescCreateFail(1)

SpecPrescribeFaulty == Init /\ [][NextPrescribeFaulty]_vars

\* the documents request r has saved when the step ends
SavedBy(r) ==
  (IF req[r].pc = "save" THEN Len(req[r].out) ELSE 0)
    + (Len(prescriptions') - Len(prescriptions))

\* C26: when a prescription-create request is answered, whatever the answer,
\* it has saved either a document for every item of its list or none.
C26_BatchAllOrNothing ==
  [][\A r \in Slots :
       Answered(r, "createPrescriptions")
         => SavedBy(r) \in {0, Len(req'[r].body.items)}]_vars

----------------------------------------------------------------------------
(* Booking a slot that was reported available *)

\* the slot of the appointment request r is about to save is one the
\* available-slot operation reports for its doctor and day
ReportedAvailable(r) ==
  req[r].doc.appointment_time
    \in Range(AvailableSlots(req[r].doc.doctor_id, req[r].doc.appointment_date))

\* C27: when a patient's valid appointment for a slot that the available-slot
\* operation reports is saved with no other request in between, the save
\* stores it, also when a rejected, cancelled or completed appointment holds
\* the slot.
C27_ReportedSlotIsBookable ==
  [][\A r \in Slots :
       (/\ req[r].pc = "save"
        /\ req[r].op = "createAppointment"
        /\ req'[r] # req[r]
        /\ AppointmentValid(req[r].doc)
        /\ ReportedAvailable(r))
         => /\ req'[r].pc = "notify"
            /\ Len(appointments') = Len(appointments) + 1]_vars

----------------------------------------------------------------------------
(* PUT /api/lab-tests/requests/:id, and results over a storage that may fail *)

\* a body that carries no path
EmptyLabUpdate ==
  [patient_id |-> NoVal, doctor_id |-> NoVal, status |-> NoVal, hospital_id |-> NoVal,
   consultation_id |-> 0, lab_test_template_id |-> NoVal]

\* runValidators on the paths the update sets: the status enum
LabRequestUpdateValid(body) ==
  body.status # NoVal => body.status \in LabRequestStatusEnum

\* findByIdAndUpdate(id, req.body): every path the body carries replaces the
\* stored one, the others stay
ApplyLabRequestUpdate(request, body) ==
  [_id |-> request._id,
   patient_id |-> IF body.patient_id = NoVal THEN request.patient_id
                  ELSE body.patient_id,
   doctor_id |-> IF body.doctor_id = NoVal THEN request.doctor_id
                 ELSE body.doctor_id,
   status |-> IF body.status = NoVal THEN request.status ELSE body.status,
   hospital_id |-> IF body.hospital_id = NoVal THEN request.hospital_id
                   ELSE body.hospital_id,
   consultation_id |-> IF body.consultation_id = 0 THEN request.consultation_id
                       ELSE body.consultation_id,
   lab_test_template_id |-> IF body.lab_test_template_id = NoVal
                              THEN request.lab_test_template_id
                              ELSE body.lab_test_template_id]

\* LabTestRequest.findByIdAndUpdate(id, req.body, { runValidators: true }):
\* 500 for a status outside the enum, 404 for no such request, 200 with the
\* paths of the body replaced. Any authenticated caller.
LabRequestUpdate(r, caller, id, body) ==
  /\ Free(r)
  /\ IF ~LabRequestUpdateValid(body)
       THEN /\ Respond(r, "updateLabRequest", caller, id, NoLabRequest, body, 500,
                       "ValidationError")
            /\ UNCHANGED labRequests
       ELSE IF LabRequestFindById(id) = NoLabRequest
         THEN /\ Respond(r, "updateLabRequest", caller, id, NoLabRequest, body, 404,
                         "Request not found")
              /\ UNCHANGED labRequests
         ELSE /\ labRequests' =
                   [labRequests EXCEPT ![id] = ApplyLabRequestUpdate(labRequests[id], body)]
              /\ Respond(r, "updateLabRequest", caller, id, labRequests'[id], body, 200,
                         NoVal)
  /\ UNCHANGED <<bookingVars, dispensingVars, labResults, registryVars>>

\* LabTestRequest.findByIdAndUpdate(..., { status: 'completed' }) rejects for a
\* reason of the storage: the catch answers 500 and the saved result stays
LabResultCompleteFail(r) ==
  /\ req[r].pc = "complete"
  /\ req[r].op = "recordResult"
  /\ Respond(r, "recordResult", req[r].caller, req[r].id, req[r].doc, req[r].body,
             500, "storage error")
  /\ UNCHANGED <<bookingVars, dispensingVars, labVars, registryVars>>

\* a status alone, a status with another hospital, the references alone
LabRequestUpdates ==
  {[EmptyLabUpdate EXCEPT !.status = st] :
     st \in {"pending", "in_progress", "completed", "lost"}}
    \cup {[EmptyLabUpdate EXCEPT !.status = "pending", !.hospital_id = "H2"],
          [EmptyLabUpdate EXCEPT !.patient_id = "P2", !.doctor_id = "D2",
                                 !.consultation_id = 2, !.lab_test_template_id = "T2"]}

NextLabUpdate ==
  \/ \E body \in {b \in ResultBodies : b.lab_test_request_id \in {1, 2}
                                        /\ b.result_status = "positive"} :
       LabResultsFit /\ LabResultNew(1, "L1", body)
  \/ LabResultSave(1)
  \/ LabResultPopulate(1)
  \/ LabResultComplete(1)
  \/ LabResultCompleteFail(1)
  \/ \E caller \in {"P1", "L1"}, id \in {1, 2, 9}, body \in LabRequestUpdates :
       LabRequestUpdate(1, caller, id, body)

SpecLabUpdate == InitLab /\ [][NextLabUpdate]_vars

\* result i is stored and the request that recorded it has been answered
Recorded(i) ==
  /\ i \in 1..Len(labResults)
  /\ \A r \in Slots :
       ~(req[r].op = "recordResult" /\ req[r].pc \in {"populate", "complete"}
           /\ req[r].id = i)

\* C28: once the request that recorded a result has been answered, the lab
\* test request of the result is completed, and it stays completed.
C28_ResultMeansCompleted ==
  \A i \in 1..Len(labResults) :
    (Recorded(i) /\ labResults[i].lab_test_request_id \in 1..Len(labRequests))
      => labRequests[labResults[i].lab_test_request_id].status = "completed"

----------------------------------------------------------------------------
(* POST /api/pharmacy-requests, and prescription updates at the same time *)

MaxPharmacyRequests == 2

PharmacyRequestStatusEnum == {"pending", "approved", "rejected", "completed"}

\* new PharmacyRequest({ ...req.body, patient_id: req.user._id }); a
\* prescription_id of 0 stands for an absent one
NewPharmacyRequest(caller, body) ==
  [patient_id |-> caller,
   status |-> IF body.status = NoVal THEN "pending" ELSE body.status,
   pharmacy_id |-> body.pharmacy_id, prescription_id |-> body.prescription_id]

\* request.save() validation: required paths and the enum; the schema has no
\* unique index
PharmacyRequestValid(doc) ==
  /\ doc.prescription_id # 0
  /\ doc.pharmacy_id # NoVal
  /\ doc.status \in PharmacyRequestStatusEnum

PharmacyRequestsFit == Len(pharmacyRequests) < MaxPharmacyRequests

\* the role check, request.save(), the populates, 201; catch 500
PharmReqCreate(r, caller, body) ==
  /\ Free(r)
  /\ IF Role(caller) # "patient"
       THEN /\ Respond(r, "createPharmacyRequest", caller, 0, EmptyDoc, body, 403,
                       "Only patients can create pharmacy requests")
            /\ UNCHANGED pharmacyRequests
       ELSE IF ~PharmacyRequestValid(NewPharmacyRequest(caller, body))
         THEN /\ Respond(r, "createPharmacyRequest", caller, 0, EmptyDoc, body, 500,
                         "ValidationError")
              /\ UNCHANGED pharmacyRequests
         ELSE /\ pharmacyRequests' =
                   Append(pharmacyRequests, NewPharmacyRequest(caller, body))
              /\ Respond(r, "createPharmacyRequest", caller, Len(pharmacyRequests) + 1,
                         EmptyDoc, body, 201, NoVal)
  /\ UNCHANGED <<bookingVars, prescriptions, insurances, payments, labVars, registryVars>>

\* the Pharmacy documents: PY1 is run by pharmacist PH1
PharmacyDocs == {[_id |-> "PY1", pharmacist_id |-> "PH1"]}

\* a patient must own the request; a pharmacist must run the pharmacy of the
\* request; callers of the other roles are not checked
MayUpdatePharmacyRequest(caller, request) ==
  /\ Role(caller) = "patient" => request.patient_id = caller
  /\ Role(caller) = "pharmacist"
       => \E pharmacy \in PharmacyDocs :
            pharmacy.pharmacist_id = caller /\ pharmacy._id = request.pharmacy_id

\* the paths of the body over the stored ones; an absent prescription_id is 0
ApplyPharmacyRequestUpdate(request, body) ==
  [patient_id |-> IF body.patient_id = NoVal THEN request.patient_id
                  ELSE body.patient_id,
   status |-> IF body.status = NoVal THEN request.status ELSE body.status,
   pharmacy_id |-> IF body.pharmacy_id = NoVal THEN request.pharmacy_id
                   ELSE body.pharmacy_id,
   prescription_id |-> IF body.prescription_id = 0 THEN request.prescription_id
                       ELSE body.prescription_id]

\* PUT /api/pharmacy-requests/:id: PharmacyRequest.findById, 404 for null,
\* the checks of a patient and of a pharmacist caller
PharmReqUpdateFind(r, caller, id, body) ==
  /\ Free(r)
  /\ IF id \notin 1..Len(pharmacyRequests)
       THEN Respond(r, "updatePharmacyRequest", caller, id, EmptyDoc, body, 404,
                    "Request not found")
       ELSE IF ~MayUpdatePharmacyRequest(caller, pharmacyRequests[id])
         THEN Respond(r, "updatePharmacyRequest", caller, id, EmptyDoc, body, 403,
                      "Access denied")
         ELSE req' = [req EXCEPT ![r] =
                        [Idle EXCEPT !.pc = "writeRequest",
                                     !.op = "updatePharmacyRequest",
                                     !.caller = caller, !.id = id, !.body = body]]
  /\ UNCHANGED <<bookingVars, dispensingVars, labVars, registryVars>>

\* PharmacyRequest.findByIdAndUpdate(id, req.body, { runValidators }): the
\* status enum is validated, 200; catch 500
PharmReqUpdateWrite(r) ==
  /\ req[r].pc = "writeRequest"
  /\ req[r].op = "updatePharmacyRequest"
  /\ LET id == req[r].id
         body == req[r].body
     IN  IF body.status # NoVal /\ body.status \notin PharmacyRequestStatusEnum
           THEN /\ Respond(r, "updatePharmacyRequest", req[r].caller, id, EmptyDoc,
                           body, 500, "ValidationError")
                /\ UNCHANGED pharmacyRequests
           ELSE /\ pharmacyRequests' =
                     [pharmacyRequests EXCEPT
                        ![id] = ApplyPharmacyRequestUpdate(pharmacyRequests[id], body)]
                /\ Respond(r, "updatePharmacyRequest", req[r].caller, id, EmptyDoc,
                           body, 200, NoVal)
  /\ UNCHANGED <<bookingVars, prescriptions, insurances, payments, labVars, registryVars>>

PharmacyRequestUpdates ==
  {[patient_id |-> NoVal, status |-> "approved", pharmacy_id |-> NoVal,
    prescription_id |-> 0],
   [patient_id |-> NoVal, status |-> "lost", pharmacy_id |-> NoVal,
    prescription_id |-> 0],
   [patient_id |-> NoVal, status |-> NoVal, pharmacy_id |-> "PY2",
    prescription_id |-> 2],
   [patient_id |-> "P2", status |-> NoVal, pharmacy_id |-> NoVal,
    prescription_id |-> 0]}

PharmacyRequestBodies ==
  {[status |-> st, pharmacy_id |-> ph, prescription_id |-> id] :
     st \in {NoVal, "lost"}, ph \in {"PY1", NoVal}, id \in {0, 1}}

NextDispenseRace ==
  \/ PrescriptionsFit(<<ItemA>>)
       /\ PrescCreateBegin(1, "UD1", PrescriptionBody(<<ItemA>>))
  \/ PrescCreateSave(1)
  \/ \E r \in Slots :
       /\ PharmacyRequestsFit
       /\ PrescUpdateFind(r, "UD1", 1, [EmptyUpdate EXCEPT !.pharmacy_id = "PY1"])
  \/ \E r \in Slots : PrescUpdateWrite(r)
  \/ \E r \in Slots : PrescUpdateFindRequest(r)
  \/ \E r \in Slots : PrescUpdateSaveRequest(r)
  \/ \E caller \in {"P1", "PH1"}, body \in PharmacyRequestBodies :
       PharmacyRequestsFit /\ PharmReqCreate(1, caller, body)
  \/ \E caller \in {"P1", "P2", "PH1"}, id \in {1, 9},
        body \in PharmacyRequestUpdates : PharmReqUpdateFind(1, caller, id, body)
  \/ PharmReqUpdateWrite(1)

SpecDispenseRace == Init /\ [][NextDispenseRace]_vars

\* C29: no (prescription, pharmacy) pair ever has two PharmacyRequest
\* documents, also when prescription updates run at the same time and when a
\* patient creates a request for the pair.
C29_OneRequestPerPairAlways ==
  \A i, j \in 1..Len(pharmacyRequests) :
    (/\ pharmacyRequests[i].prescription_id = pharmacyRequests[j].prescription_id
     /\ pharmacyRequests[i].pharmacy_id = pharmacyRequests[j].pharmacy_id)
      => i = j

----------------------------------------------------------------------------
(* Results recorded for a request that does not exist *)

\* C30: a result-recording request that was answered with an error has left
\* no LabTestResult of its own in the collection, and every result whose
\* recording request was answered names a LabTestRequest that exists.
C30_ErrorLeavesNoResult ==
  /\ \A r \in Slots :
       (DoneResult(r) /\ req[r].code # 201) => req[r].id \notin 1..Len(labResults)
  /\ \A i \in 1..Len(labResults) :
       Recorded(i) => labResults[i].lab_test_request_id \in 1..Len(labRequests)

====
